---- MODULE Spec2Model ----
(***************************************************************************)
(* Graph model (src/src/model.ts), context-menu deletion                   *)
(* (src/src/model/ResizeCommand.ts) and the interactive edge creator       *)
(* (src/src/edge-creator.ts with findPortInfo of port-utils).              *)
(*                                                                         *)
(* Ids are JavaScript strings.  An id is modelled as the sequence of its   *)
(* '-'-separated parts (id.split('-')), every part being a hyphen-free     *)
(* string, so that `${a}-${b}` is a \o b and split('-')[0] is Head.        *)
(* Decimal numerals are parts too ("7"); parseInt and number formatting    *)
(* are the tables ParseInt and NumStr.                                     *)
(***************************************************************************)
EXTENDS Integers, Sequences, FiniteSets, TLC

VARIABLES
    model,          \* GraphModel.model: the root graph, [type, id, children]
    edgeCounter,    \* GraphModel.edgeCounter
    state,          \* EdgeCreator.state: [isCreating, sourcePortId, sourcePosition]
    feedbackLine,   \* EdgeCreator.feedbackLine: <<>> (null) or <<k>>, path element k
    domPaths,       \* the 'feedback-edge' path elements attached under 'svg > g'
    maxAllocated,   \* the largest number an edge id was allocated with (history)
    validTargets,   \* ids of the port elements carrying class 'port-valid-target'
    timers,         \* the setTimeout callbacks that are scheduled and have not run
    dom,            \* the '.sprotty-node' elements of the page, in document order
    monaco,         \* the JSON editor: its text, isUpdatingFromMonaco, monacoUpdateTimer
    menu,           \* the click listeners of the context-menu items and the bound*Handler fields
    view,           \* the view: its root's children and the resize command executed last
    last            \* the last call and what it returned (history, for the properties)

vars == <<model, edgeCounter, maxAllocated, state, feedbackLine, domPaths, validTargets,
          timers, dom, monaco, menu, view, last>>

----------------------------------------------------------------------------
(* Bounds of the exploration *)

MaxCounter == 3
MaxChildren == 4
MaxPaths == 2
MaxNodes == 2
MaxClock == 2
MaxX == 400
MaxY == 120

----------------------------------------------------------------------------
(* Numbers as text *)

NumStr(n) ==
    CASE n = 0 -> "0" [] n = 1 -> "1" [] n = 2 -> "2" [] n = 3 -> "3"
      [] n = 4 -> "4" [] n = 5 -> "5" [] n = 6 -> "6" [] n = 7 -> "7"
      [] n = 8 -> "8" [] n = 9 -> "9" [] n = 10 -> "10" [] n = 11 -> "11"
      [] n = 12 -> "12" [] OTHER -> "big"

\* the parts that consist of decimal digits only (\d+ matches the whole part)
DigitParts == {"0", "1", "2", "3", "4", "5", "6", "7", "8", "9", "10", "11", "12", "07"}

ParseInt(s) ==
    CASE s = "0" -> 0 [] s = "1" -> 1 [] s = "2" -> 2 [] s = "3" -> 3
      [] s = "4" -> 4 [] s = "5" -> 5 [] s = "6" -> 6 [] s = "7" -> 7
      [] s = "8" -> 8 [] s = "9" -> 9 [] s = "10" -> 10 [] s = "11" -> 11
      [] s = "12" -> 12 [] s = "07" -> 7

Max(a, b) == IF a >= b THEN a ELSE b

----------------------------------------------------------------------------
(* Geometry *)

PORT_SIZE == 16

\* cos and sin of a multiple of 90 degrees (the angles of the model)
Quadrant(angleDegrees) == ((angleDegrees % 360) + 360) % 360
Cos90(angleDegrees) ==
    CASE Quadrant(angleDegrees) = 0 -> 1 [] Quadrant(angleDegrees) = 90 -> 0
      [] Quadrant(angleDegrees) = 180 -> -1 [] Quadrant(angleDegrees) = 270 -> 0
Sin90(angleDegrees) ==
    CASE Quadrant(angleDegrees) = 0 -> 0 [] Quadrant(angleDegrees) = 90 -> 1
      [] Quadrant(angleDegrees) = 180 -> 0 [] Quadrant(angleDegrees) = 270 -> -1

\* mutant: the rotated point is not translated back to the centre
rotatePoint_NoTranslateBack(x, y, centerX, centerY, angleDegrees) ==
    LET translatedX == x - centerX
        translatedY == y - centerY
        rotatedX == translatedX * Cos90(angleDegrees) - translatedY * Sin90(angleDegrees)
        rotatedY == translatedX * Sin90(angleDegrees) + translatedY * Cos90(angleDegrees)
    IN  [x |-> rotatedX, y |-> rotatedY]

rotatePoint(x, y, centerX, centerY, angleDegrees) ==
    LET translatedX == x - centerX
        translatedY == y - centerY
        rotatedX == translatedX * Cos90(angleDegrees) - translatedY * Sin90(angleDegrees)
        rotatedY == translatedX * Sin90(angleDegrees) + translatedY * Cos90(angleDegrees)
    IN  [x |-> rotatedX + centerX, y |-> rotatedY + centerY]

\* mutant: a half turn is taken for a neutral rotation too
calculatePortPositionWithRotation_HalfTurnNeutral(x, y, width, height, rotation, centerX, centerY) ==
    IF rotation % 180 # 0
    THEN LET rotated == rotatePoint(x + width \div 2, y + height \div 2,
                                    centerX, centerY, rotation)
         IN  [x |-> rotated.x - width \div 2, y |-> rotated.y - height \div 2]
    ELSE [x |-> x, y |-> y]

calculatePortPositionWithRotation(x, y, width, height, rotation, centerX, centerY) ==
    IF rotation # 0 /\ rotation # -360 /\ rotation # 360
    THEN LET rotated == rotatePoint(x + width \div 2, y + height \div 2,
                                    centerX, centerY, rotation)
         IN  [x |-> rotated.x - width \div 2, y |-> rotated.y - height \div 2]
    ELSE [x |-> x, y |-> y]

----------------------------------------------------------------------------
(* Tree elements (src/src/types.ts) *)

\* svgContent: a node without one has NoSvg; a payload is what DOMParser finds in
\* it: whether there is an <svg> element and its [data-attribute="port"] rects
NoSvg == [present |-> FALSE, hasSvg |-> FALSE, ports |-> <<>>]

Port(id, portType, side, x, y) ==
    [type |-> "port:flow", id |-> id, position |-> [x |-> x, y |-> y],
     size |-> [width |-> PORT_SIZE, height |-> PORT_SIZE],
     portType |-> portType, side |-> side]

Node(type, id, x, y, w, h, rotation, svgContent, children) ==
    [type |-> type, id |-> id, position |-> [x |-> x, y |-> y],
     size |-> [width |-> w, height |-> h], rotation |-> rotation,
     svgContent |-> svgContent, children |-> children]

Edge(id, sourceId, targetId) ==
    [type |-> "edge:flow", id |-> id, sourceId |-> sourceId, targetId |-> targetId]

IsEdge(child) == child.type = "edge:flow"
IsFlatNode(child) == child.type = "node:process" \/ child.type = "node:svg"
IsPackage(child) == child.type = "node:package"

Range(s) == {s[i] : i \in 1..Len(s)}

\* a property that an object may not have: its value, or the default
Field(object, name, default) == IF name \in DOMAIN object THEN object[name] ELSE default
\* object[name] = value, the property being added when the object has none
With(object, name, value) ==
    [f \in DOMAIN object \cup {name} |-> IF f = name THEN value ELSE object[f]]

----------------------------------------------------------------------------
(* Documents that loadFromJson is given (an imported file, the JSON editor) *)

N1in == <<"n1", "in">>
N1out == <<"n1", "out">>
N2in == <<"n2", "in">>
N2out == <<"n2", "out">>
C1in == <<"child", "node1", "in">>
C1out == <<"child", "node1", "out">>
C2in == <<"child", "node2", "in">>
GhostOut == <<"ghost", "out">>

N1 == Node("node:process", <<"n1">>, 100, 100, 120, 60, 0, NoSvg,
           <<Port(N1in, "input", "left", -8, 22), Port(N1out, "output", "right", 112, 22)>>)
N2 == Node("node:process", <<"n2">>, 300, 100, 120, 60, 0, NoSvg,
           <<Port(N2in, "input", "left", -8, 22), Port(N2out, "output", "right", 112, 22)>>)

\* the two children that addPackageNode puts in a package (model.ts:753-774)
ChildNode1 == Node("node:process", <<"child", "node1">>, 50, 50, 120, 60, 0, NoSvg,
                   <<Port(C1in, "input", "left", -8, 22),
                     Port(C1out, "output", "right", 112, 22)>>)
ChildNode2 == Node("node:process", <<"child", "node2">>, 250, 50, 120, 60, 0, NoSvg,
                   <<Port(C2in, "input", "left", -8, 22),
                     Port(<<"child", "node2", "out">>, "output", "right", 112, 22)>>)
Pkg == [type |-> "node:package", id |-> <<"package", "1">>,
        position |-> [x |-> 100, y |-> 100], size |-> [width |-> 400, height |-> 200],
        rotation |-> 0, children |-> <<ChildNode1, ChildNode2>>]

\* a process node stored with rotation 90 and a vector node with its payload
R1 == Node("node:process", <<"r1">>, 0, 0, 120, 60, 90, NoSvg,
           <<Port(<<"r1", "in">>, "input", "left", -8, 22)>>)
SvgPayload == [present |-> TRUE, hasSvg |-> TRUE,
               ports |-> <<[cls |-> <<"Inlet">>, hasId |-> TRUE, attrType |-> "in",
                            x |-> 0, y |-> 40, width |-> 20, height |-> 20],
                           [cls |-> <<"Outlet">>, hasId |-> FALSE, attrType |-> "out",
                            x |-> 80, y |-> 40, width |-> 20, height |-> 20]>>]
S1 == [Node("node:svg", <<"s1">>, 0, 0, 100, 100, 90, SvgPayload,
            <<Port(<<"s1", "Inlet">>, "input", "left", 0, 40),
              Port(<<"s1", "port", "1">>, "output", "right", 80, 40)>>)
       EXCEPT !.children[1].size = [width |-> 20, height |-> 20],
              !.children[2].size = [width |-> 20, height |-> 20]]

\* a package in a package: child-node1 is two containers deep
Inner == [type |-> "node:package", id |-> <<"inner">>,
          position |-> [x |-> 20, y |-> 20], size |-> [width |-> 300, height |-> 150],
          rotation |-> 0, children |-> <<ChildNode1>>]
Outer == [type |-> "node:package", id |-> <<"outer">>,
          position |-> [x |-> 300, y |-> 100], size |-> [width |-> 400, height |-> 200],
          rotation |-> 0, children |-> <<Inner, ChildNode2>>]

\* a node with two left ports, one right port and a port that has no side
\* (side absent or empty), and a node one of whose ports has a side that is
\* none of the four (the editor accepts any JSON)
P3 == Node("node:process", <<"p3">>, 100, 300, 120, 60, 0, NoSvg,
           <<Port(<<"p3", "a">>, "input", "left", -8, 0),
             Port(<<"p3", "free">>, "input", "", 52, 22),
             Port(<<"p3", "out">>, "output", "right", 112, 22),
             Port(<<"p3", "b">>, "input", "left", -8, 44)>>)
Q1 == Node("node:process", <<"q1">>, 300, 300, 120, 60, 0, NoSvg,
           <<Port(<<"q1", "in">>, "input", "left", -8, 22),
             Port(<<"q1", "mid">>, "output", "center", 52, 22)>>)

\* a process node as createNodeWithPorts makes it, with a horizontal flip offset
F1 == [type |-> "node:process", id |-> <<"f1">>,
       position |-> [x |-> 100, y |-> 100], size |-> [width |-> 120, height |-> 60],
       children |-> <<Port(<<"f1", "left", "input", "0">>, "input", "left", -8, 22),
                      Port(<<"f1", "top", "output", "0">>, "output", "top", 52, -8)>>,
       flipHorizontal |-> <<4>>, flipVertical |-> <<>>, rotation |-> 0]

\* a process node stored with rotation 360, and a package one of whose children
\* is stored with rotation 90
Turned == Node("node:process", <<"t1">>, 200, 0, 120, 60, 360, NoSvg,
               <<Port(<<"t1", "in">>, "input", "left", -8, 22)>>)
RChild == Node("node:process", <<"rc">>, 50, 50, 120, 60, 90, NoSvg,
               <<Port(<<"rc", "in">>, "input", "left", -8, 22)>>)
PkgR == [type |-> "node:package", id |-> <<"package", "2">>,
         position |-> [x |-> 100, y |-> 300], size |-> [width |-> 400, height |-> 200],
         rotation |-> 0, children |-> <<RChild, ChildNode2>>]

Graph(children) == [type |-> "graph", id |-> <<"root">>, children |-> children]

LoadableTrees ==
    << Graph(<<>>),
       Graph(<<N1, N2>>),
       Graph(<<N1, N2, Edge(<<"edge", "2">>, N1out, N2in)>>),
       Graph(<<N1, N2, Edge(<<"edge", "1">>, N2out, N1in),
               Edge(<<"edge", "demo", "3">>, N1out, N2in)>>),
       Graph(<<Pkg, N1>>),
       Graph(<<R1, S1>>),
       Graph(<<N1, Outer>>),
       Graph(<<P3, Q1, N2, Edge(<<"edge", "1">>, <<"p3", "out">>, N2in)>>),
       Graph(<<F1>>),
       Graph(<<N1, Outer, Edge(<<"edge", "1">>, N1out, C1in),
               Edge(<<"edge", "2">>, <<"child", "node2", "out">>, N1in),
               Edge(<<"edge", "3">>, GhostOut, N1in)>>),
       Graph(<<R1, S1, Turned, PkgR>>) >>

\* the (source, target) pairs that callers of addEdge pass: ports of two
\* top-level nodes, of one node (in both orders), of two nodes in a package,
\* and a source that no node has
EdgeCalls == {<<N1out, N2in>>, <<N2out, N1in>>, <<N1out, N1in>>, <<N1in, N1out>>,
              <<C1out, C2in>>, <<C1out, C1in>>, <<GhostOut, N1in>>}

----------------------------------------------------------------------------
(* GraphModel (src/src/model.ts) *)

createInitialModel == Graph(<<>>)

PORT_OFFSET == 8

\* the keys of portsPerSide, in the order Object.entries visits them
Sides == <<"left", "right", "top", "bottom">>

\* mutant: the offsets are counted from the far end of the side
distributeAlongAxis_FromFarEnd(index, total, length) ==
    IF total = 1 THEN (length - PORT_SIZE) \div 2
    ELSE LET usableLength == length - PORT_SIZE
             spacing == usableLength \div (total - 1)
         IN  usableLength - spacing * index

\* length / (total - 1) and (length - 16) / 2 are JavaScript divisions; the
\* inputs of the model are those for which the quotient is an integer
distributeAlongAxis(index, total, length) ==
    IF total = 1 THEN (length - PORT_SIZE) \div 2
    ELSE LET usableLength == length - PORT_SIZE
             spacing == usableLength \div (total - 1)
         IN  spacing * index

\* mutant: the right side is placed at the node's width
calculatePortPosition_RightAtWidth(side, index, totalOnSide, nodeSize) ==
    CASE side = "left" ->
            [x |-> -PORT_OFFSET, y |-> distributeAlongAxis(index, totalOnSide, nodeSize.height)]
      [] side = "right" ->
            [x |-> nodeSize.width,
             y |-> distributeAlongAxis(index, totalOnSide, nodeSize.height)]
      [] side = "top" ->
            [x |-> distributeAlongAxis(index, totalOnSide, nodeSize.width), y |-> -PORT_OFFSET]
      [] side = "bottom" ->
            [x |-> distributeAlongAxis(index, totalOnSide, nodeSize.width),
             y |-> nodeSize.height - PORT_OFFSET]

calculatePortPosition(side, index, totalOnSide, nodeSize) ==
    CASE side = "left" ->
            [x |-> -PORT_OFFSET, y |-> distributeAlongAxis(index, totalOnSide, nodeSize.height)]
      [] side = "right" ->
            [x |-> nodeSize.width - PORT_OFFSET,
             y |-> distributeAlongAxis(index, totalOnSide, nodeSize.height)]
      [] side = "top" ->
            [x |-> distributeAlongAxis(index, totalOnSide, nodeSize.width), y |-> -PORT_OFFSET]
      [] side = "bottom" ->
            [x |-> distributeAlongAxis(index, totalOnSide, nodeSize.width),
             y |-> nodeSize.height - PORT_OFFSET]

\* a PortConfig: id and index are optional (<<>> when absent, <<v>> when given)
PortConfig(type, side, id, index) == [type |-> type, side |-> side, id |-> id, index |-> index]

\* the ports of one side, in the order of the port list
PortsOnSide(ports, side) == SelectSeq(ports, LAMBDA port : port.side = side)

\* mutant: the default port id carries the direction only
DefaultPortId_NoOrdinal(id, side, type, index) == id \o <<side, type>>

\* `${id}-${side}-${port.type}-${index}`
DefaultPortId(id, side, type, index) == id \o <<side, type, NumStr(index)>>

\* the children that the ports of one side contribute; label is port.label,
\* undefined (<<>>) when the PortConfig has none, else <<text>>
SideChildren(id, side, sidePorts, size) ==
    [k \in 1..Len(sidePorts) |->
        LET port == sidePorts[k]
            index == k - 1
            position == calculatePortPosition(
                            side, IF port.index # <<>> THEN port.index[1] ELSE index,
                            Len(sidePorts), size)
            portId == IF port.id # <<>> THEN id \o port.id[1]
                      ELSE DefaultPortId(id, side, port.type, index)
        IN  With(Port(portId, port.type, side, position.x, position.y),
                 "label", Field(port, "label", <<>>))]

\* flipHorizontal and flipVertical are null (<<>>) or a number (<<n>>)
createNodeWithPorts(config) ==
    LET children == SideChildren(config.id, Sides[1], PortsOnSide(config.ports, Sides[1]), config.size)
                 \o SideChildren(config.id, Sides[2], PortsOnSide(config.ports, Sides[2]), config.size)
                 \o SideChildren(config.id, Sides[3], PortsOnSide(config.ports, Sides[3]), config.size)
                 \o SideChildren(config.id, Sides[4], PortsOnSide(config.ports, Sides[4]), config.size)
    IN  [type |-> "node:process", id |-> config.id,
         position |-> [x |-> config.x, y |-> config.y],
         size |-> [width |-> config.size.width, height |-> config.size.height],
         children |-> children,
         flipHorizontal |-> config.flipHorizontal, flipVertical |-> config.flipVertical,
         rotation |-> config.rotation]

\* extractPortInfo: the port id that a payload rect at position index stands for
extractPortId(marker, nodeId, index) ==
    IF marker.hasId THEN nodeId \o marker.cls ELSE nodeId \o <<"port", NumStr(index)>>

\* node.children.find(p => p.id === portId): index of the first such port, 0 if none
FindPort(children, portId) ==
    IF \E i \in 1..Len(children) : children[i].id = portId
    THEN CHOOSE i \in 1..Len(children) :
            /\ children[i].id = portId
            /\ \A j \in 1..(i - 1) : children[j].id # portId
    ELSE 0

RECURSIVE ApplyPortElements(_, _, _, _, _, _, _)
ApplyPortElements(children, portElements, k, nodeId, rotation, centerX, centerY) ==
    IF k > Len(portElements) THEN children
    ELSE LET e == portElements[k]
             i == FindPort(children, extractPortId(e, nodeId, k - 1))
             position == calculatePortPositionWithRotation(
                             e.x, e.y, e.width, e.height, rotation, centerX, centerY)
             updated == IF i = 0 THEN children
                        ELSE [children EXCEPT ![i].position = position]
         IN  ApplyPortElements(updated, portElements, k + 1, nodeId, rotation, centerX, centerY)

updatePortPositionsFromSvg(node, rotation, centerX, centerY) ==
    IF ~node.svgContent.hasSvg THEN node
    ELSE [node EXCEPT !.children =
            ApplyPortElements(node.children, node.svgContent.ports, 1, node.id,
                              rotation, centerX, centerY)]

rotateExistingPortPositions(node, rotation, centerX, centerY) ==
    [node EXCEPT !.children =
        [i \in 1..Len(node.children) |->
            LET port == node.children[i]
                rotated == rotatePoint(port.position.x + port.size.width \div 2,
                                       port.position.y + port.size.height \div 2,
                                       centerX, centerY, rotation)
            IN  [port EXCEPT !.position =
                    [x |-> rotated.x - port.size.width \div 2,
                     y |-> rotated.y - port.size.height \div 2]]]]

recalculatePortPositionsForRotatedNodes(children) ==
    [i \in 1..Len(children) |->
        LET node == children[i] IN
        IF ~IsFlatNode(node) THEN node
        ELSE IF node.rotation = 0 \/ node.rotation = -360 \/ node.rotation = 360 THEN node
        ELSE LET centerX == node.size.width \div 2
                 centerY == node.size.height \div 2
             IN  IF Field(node, "svgContent", NoSvg).present
                 THEN updatePortPositionsFromSvg(node, node.rotation, centerX, centerY)
                 ELSE rotateExistingPortPositions(node, node.rotation, centerX, centerY)]

\* mutant: the pattern lets other parts stand between "edge" and the numeral
EdgeIdMatches_Loose(id) ==
    {i \in 1..(Len(id) - 1) : id[i + 1] \in DigitParts /\ \E j \in 1..i : id[j] = "edge"}

\* edge.id.match(/edge-(\d+)/): the first part "edge" that a numeral follows
EdgeIdMatches(id) ==
    {i \in 1..(Len(id) - 1) : id[i] = "edge" /\ id[i + 1] \in DigitParts}
EdgeIdNumber(id) ==
    LET i == CHOOSE k \in EdgeIdMatches(id) : \A j \in EdgeIdMatches(id) : k <= j
    IN  ParseInt(id[i + 1])

RECURSIVE MaxEdgeId(_, _)
MaxEdgeId(edges, max) ==
    IF edges = <<>> THEN max
    ELSE MaxEdgeId(Tail(edges),
                   IF EdgeIdMatches(Head(edges).id) # {}
                   THEN Max(max, EdgeIdNumber(Head(edges).id))
                   ELSE max)

\* mutant: the counter restarts at the number of edges
loadFromJsonCounter_Count(jsonModel) == Len(SelectSeq(jsonModel.children, IsEdge))

loadFromJsonCounter(jsonModel) == MaxEdgeId(SelectSeq(jsonModel.children, IsEdge), 0)

loadFromJsonModel(jsonModel) ==
    [jsonModel EXCEPT !.children = recalculatePortPositionsForRotatedNodes(jsonModel.children)]

\* index of the first top-level process/vector node that has a port with this id
OwnerIndexes(children, portId) ==
    {i \in 1..Len(children) :
        /\ IsFlatNode(children[i])
        /\ \E k \in 1..Len(children[i].children) : children[i].children[k].id = portId}

extractNodeId(children, portId) ==
    IF OwnerIndexes(children, portId) # {}
    THEN children[CHOOSE i \in OwnerIndexes(children, portId) :
                    \A j \in OwnerIndexes(children, portId) : i <= j].id
    ELSE <<Head(portId)>>

EdgeExists(children, sourcePortId, targetPortId) ==
    \E i \in 1..Len(children) :
        /\ IsEdge(children[i])
        /\ children[i].sourceId = sourcePortId
        /\ children[i].targetId = targetPortId

\* mutant: the self-loop test compares the port ids
validateEdge_SamePort(children, sourcePortId, targetPortId) ==
    IF sourcePortId = targetPortId
    THEN [valid |-> FALSE, reason |-> "Cannot connect a node to itself"]
    ELSE IF EdgeExists(children, sourcePortId, targetPortId)
    THEN [valid |-> FALSE, reason |-> "Edge already exists"]
    ELSE [valid |-> TRUE, reason |-> ""]

validateEdge(children, sourcePortId, targetPortId) ==
    IF extractNodeId(children, sourcePortId) = extractNodeId(children, targetPortId)
    THEN [valid |-> FALSE, reason |-> "Cannot connect a node to itself"]
    ELSE IF EdgeExists(children, sourcePortId, targetPortId)
    THEN [valid |-> FALSE, reason |-> "Edge already exists"]
    ELSE [valid |-> TRUE, reason |-> ""]

\* mutant: the id is taken before the validation
addEdge_CountFirst(m, counter, sourcePortId, targetPortId) ==
    LET validation == validateEdge(m.children, sourcePortId, targetPortId) IN
    IF ~validation.valid
    THEN [model |-> m, edgeCounter |-> counter + 1,
          success |-> FALSE, message |-> validation.reason, edgeId |-> <<>>]
    ELSE LET edgeId == <<"edge", NumStr(counter + 1)>> IN
         [model |-> [m EXCEPT !.children =
                        Append(@, Edge(edgeId, sourcePortId, targetPortId))],
          edgeCounter |-> counter + 1,
          success |-> TRUE, message |-> "Edge created", edgeId |-> edgeId]

\* mutant: edgeCounter++ in place of ++edgeCounter
addEdge_PostIncrement(m, counter, sourcePortId, targetPortId) ==
    LET validation == validateEdge(m.children, sourcePortId, targetPortId) IN
    IF ~validation.valid
    THEN [model |-> m, edgeCounter |-> counter,
          success |-> FALSE, message |-> validation.reason, edgeId |-> <<>>]
    ELSE LET edgeId == <<"edge", NumStr(counter)>> IN
         [model |-> [m EXCEPT !.children =
                        Append(@, Edge(edgeId, sourcePortId, targetPortId))],
          edgeCounter |-> counter + 1,
          success |-> TRUE, message |-> "Edge created", edgeId |-> edgeId]

\* addEdge as a function of the model: the new children, counter and result
addEdge(m, counter, sourcePortId, targetPortId) ==
    LET validation == validateEdge(m.children, sourcePortId, targetPortId) IN
    IF ~validation.valid
    THEN [model |-> m, edgeCounter |-> counter,
          success |-> FALSE, message |-> validation.reason, edgeId |-> <<>>]
    ELSE LET edgeId == <<"edge", NumStr(counter + 1)>> IN
         [model |-> [m EXCEPT !.children =
                        Append(@, Edge(edgeId, sourcePortId, targetPortId))],
          edgeCounter |-> counter + 1,
          success |-> TRUE, message |-> "Edge created", edgeId |-> edgeId]

\* findNode of updateNodePosition and updateNodeSize: the path (child
\* indexes from the root) of the first node with this id, depth first through
\* the packages; <<>> when there is none
IsNode(child) == IsFlatNode(child) \/ IsPackage(child)

RECURSIVE findNode(_, _)
findNode(children, nodeId) ==
    LET Here(i) == IsNode(children[i]) /\ children[i].id = nodeId
        Below(i) == IsPackage(children[i]) /\ findNode(children[i].children, nodeId) # <<>>
        hits == {i \in 1..Len(children) : Here(i) \/ Below(i)}
    IN  IF hits = {} THEN <<>>
        ELSE LET i == CHOOSE k \in hits : \A j \in hits : k <= j
             IN  IF Here(i) THEN <<i>>
                 ELSE <<i>> \o findNode(children[i].children, nodeId)

RECURSIVE NodeAt(_, _)
NodeAt(children, path) ==
    IF Len(path) = 1 THEN children[path[1]]
    ELSE NodeAt(children[path[1]].children, Tail(path))

RECURSIVE ReplaceAt(_, _, _)
ReplaceAt(children, path, node) ==
    IF Len(path) = 1 THEN [children EXCEPT ![path[1]] = node]
    ELSE [children EXCEPT ![path[1]].children = ReplaceAt(@, Tail(path), node)]

\* mutant: only the top level is searched
updateNodePosition_TopLevel(m, nodeId, x, y) ==
    LET hits == {i \in 1..Len(m.children) :
                    IsNode(m.children[i]) /\ m.children[i].id = nodeId}
    IN  IF hits = {} THEN m
        ELSE [m EXCEPT !.children[CHOOSE k \in hits : \A j \in hits : k <= j].position =
                            [x |-> x, y |-> y]]

updateNodePosition(m, nodeId, x, y) ==
    LET path == findNode(m.children, nodeId) IN
    IF path = <<>> THEN m
    ELSE [m EXCEPT !.children =
            ReplaceAt(@, path, [NodeAt(@, path) EXCEPT !.position = [x |-> x, y |-> y]])]

\* `if (side)`: the port has a side (absent and empty are both falsy)
HasSide(child) == child.type = "port:flow" /\ child.side # ""

\* portsPerSide[side].push(port) throws when side is not one of the four keys
PushThrows(children) ==
    \E k \in 1..Len(children) : HasSide(children[k]) /\ children[k].side \notin Range(Sides)

\* the ports of the node placed anew for the size (width, height)
ResizedChildren(children, width, height) ==
    [k \in 1..Len(children) |->
        IF ~HasSide(children[k]) THEN children[k]
        ELSE LET side == children[k].side
                 index == Cardinality({j \in 1..(k - 1) :
                              HasSide(children[j]) /\ children[j].side = side})
                 length == Cardinality({j \in 1..Len(children) :
                              HasSide(children[j]) /\ children[j].side = side})
                 newPosition == calculatePortPosition(
                                    side, index, length, [width |-> width, height |-> height])
             IN  [children[k] EXCEPT !.position = newPosition]]

\* mutant: a miss resizes the first child
updateNodeSize_FirstOnMiss(m, nodeId, width, height) ==
    LET found == findNode(m.children, nodeId)
        path == IF found = <<>> /\ m.children # <<>> /\ IsNode(m.children[1])
                THEN <<1>> ELSE found
    IN
    IF path = <<>> THEN [model |-> m, threw |-> FALSE]
    ELSE LET node == NodeAt(m.children, path)
             sized == [node EXCEPT !.size = [width |-> width, height |-> height]]
         IN  IF PushThrows(node.children)
             THEN [model |-> [m EXCEPT !.children = ReplaceAt(@, path, sized)],
                   threw |-> TRUE]
             ELSE [model |-> [m EXCEPT !.children =
                                ReplaceAt(@, path,
                                    [sized EXCEPT !.children =
                                        ResizedChildren(@, width, height)])],
                   threw |-> FALSE]

\* updateNodeSize: the new model and whether the call threw (the size is
\* written before the ports are grouped, so a throw leaves it written)
updateNodeSize(m, nodeId, width, height) ==
    LET path == findNode(m.children, nodeId) IN
    IF path = <<>> THEN [model |-> m, threw |-> FALSE]
    ELSE LET node == NodeAt(m.children, path)
             sized == [node EXCEPT !.size = [width |-> width, height |-> height]]
         IN  IF PushThrows(node.children)
             THEN [model |-> [m EXCEPT !.children = ReplaceAt(@, path, sized)],
                   threw |-> TRUE]
             ELSE [model |-> [m EXCEPT !.children =
                                ReplaceAt(@, path,
                                    [sized EXCEPT !.children =
                                        ResizedChildren(@, width, height)])],
                   threw |-> FALSE]

\* CustomMouseListener.deleteItem (src/src/model/ResizeCommand.ts)
deleteItem(m, id) ==
    LET Keep(child) == IF IsFlatNode(child) \/ IsEdge(child) THEN child.id # id ELSE TRUE
    IN  With(m, "children", SelectSeq(Field(m, "children", <<>>), Keep))

\* model.children.find(child => child.id === id): its index, 0 if none
FindTopLevel(children, id) ==
    IF \E i \in 1..Len(children) : children[i].id = id
    THEN CHOOSE i \in 1..Len(children) :
            children[i].id = id /\ \A j \in 1..(i - 1) : children[j].id # id
    ELSE 0

\* mutant: the children of a child are not written out
JsonCopy_OneLevel(element) ==
    LET kept == {f \in DOMAIN element : ~(f = "label" /\ element[f] = <<>>)}
    IN  [f \in kept |-> IF f = "children"
                        THEN [i \in 1..Len(element.children) |->
                                IF "children" \in DOMAIN element.children[i]
                                THEN [element.children[i] EXCEPT !.children = <<>>]
                                ELSE element.children[i]]
                        ELSE element[f]]

\* JSON.parse(JSON.stringify(value)) of the tree or of one of its elements: a
\* property whose value is undefined (the label of a port made without one) is
\* left out; null, numbers, strings and arrays come back as they were
RECURSIVE JsonCopy(_)
JsonCopy(element) ==
    LET kept == {f \in DOMAIN element : ~(f = "label" /\ element[f] = <<>>)}
    IN  [f \in kept |-> IF f = "children"
                        THEN [i \in 1..Len(element.children) |-> JsonCopy(element.children[i])]
                        ELSE element[f]]

\* A vector payload (svgContent) as DOMParser reads it: present (a non-empty
\* string), hasSvg (it has an <svg> element), viewBox (the numbers that
\* split(' ') and parseFloat yield, <<>> without the attribute), the width and
\* height attributes (<<>> or <<n>>), rotation (the angle of rotate() in the
\* transform of a <g>, 0 without one) and the port markers
parseTransformFromSvg(svgContent) ==
    IF ~svgContent.present \/ ~svgContent.hasSvg THEN [rotation |-> 0, viewBox |-> <<>>]
    ELSE [rotation |-> Field(svgContent, "rotation", 0),
          viewBox |-> Field(svgContent, "viewBox", <<>>)]

parsePortsFromSvg(svgContent, id, rotation, centerX, centerY) ==
    IF ~svgContent.present \/ ~svgContent.hasSvg THEN <<>>
    ELSE [k \in 1..Len(svgContent.ports) |->
            LET portInfo == svgContent.ports[k]
                position == calculatePortPositionWithRotation(
                                portInfo.x, portInfo.y, portInfo.width, portInfo.height,
                                rotation, centerX, centerY)
                in == portInfo.attrType = "in"
            IN  [type |-> "port:flow", id |-> extractPortId(portInfo, id, k - 1),
                 position |-> position,
                 size |-> [width |-> portInfo.width, height |-> portInfo.height],
                 portType |-> IF in THEN "input" ELSE "output",
                 side |-> IF in THEN "left" ELSE "right",
                 label |-> <<portInfo.cls>>]]

\* the config has no size that createSvgNode reads: the size is the viewBox's,
\* 0 x 0 without a viewBox
createSvgNode(config) ==
    LET transformData == parseTransformFromSvg(config.svgContent)
        viewBoxX == IF transformData.viewBox # <<>> THEN transformData.viewBox[3] ELSE 0
        viewBoxY == IF transformData.viewBox # <<>> THEN transformData.viewBox[4] ELSE 0
        centerX == viewBoxX \div 2
        centerY == viewBoxY \div 2
    IN  [type |-> "node:svg", id |-> config.id,
         position |-> [x |-> config.x, y |-> config.y],
         size |-> [width |-> viewBoxX, height |-> viewBoxY],
         children |-> parsePortsFromSvg(config.svgContent, config.id, config.rotation,
                                        centerX, centerY),
         svgContent |-> config.svgContent, rotation |-> config.rotation,
         flipHorizontal |-> config.flipHorizontal, flipVertical |-> config.flipVertical]

addSvgNode(m, config) == [m EXCEPT !.children = Append(@, createSvgNode(config))]

addNodeWithPorts(m, config) == [m EXCEPT !.children = Append(@, createNodeWithPorts(config))]

\* createNode: 'in' comes before 'out' whatever the order of the ports argument
createNode(id, x, y, ports) ==
    createNodeWithPorts(
        [id |-> id, x |-> x, y |-> y,
         ports |-> (IF "in" \in ports THEN <<PortConfig("input", "left", <<<<"in">>>>, <<>>)>>
                    ELSE <<>>)
                   \o (IF "out" \in ports
                       THEN <<PortConfig("output", "right", <<<<"out">>>>, <<>>)>>
                       ELSE <<>>),
         size |-> [width |-> 120, height |-> 60],
         flipHorizontal |-> <<>>, flipVertical |-> <<>>, rotation |-> 0])

createPackageNode(id, x, y, size, children, rotation) ==
    [type |-> "node:package", id |-> id, position |-> [x |-> x, y |-> y], size |-> size,
     rotation |-> rotation, children |-> children]

\* `package-${timestamp}` next to the last node; its two children always have
\* the ids child-node1 and child-node2
addPackageNode(m, timestamp) ==
    LET existingNodes == SelectSeq(m.children, IsNode)
        lastNode == existingNodes[Len(existingNodes)]
        x == IF Len(existingNodes) > 0 THEN lastNode.position.x + 250 ELSE 100
        y == IF Len(existingNodes) > 0 THEN lastNode.position.y ELSE 100
        Child(id, cx, cy) ==
            createNodeWithPorts(
                [id |-> id, x |-> cx, y |-> cy,
                 ports |-> <<PortConfig("input", "left", <<<<"in">>>>, <<>>),
                             PortConfig("output", "right", <<<<"out">>>>, <<>>)>>,
                 size |-> [width |-> 120, height |-> 60],
                 flipHorizontal |-> <<>>, flipVertical |-> <<>>, rotation |-> 0])
    IN  [m EXCEPT !.children =
            Append(@, createPackageNode(<<"package", NumStr(timestamp)>>, x, y,
                                        [width |-> 400, height |-> 200],
                                        <<Child(<<"child", "node1">>, 50, 50),
                                          Child(<<"child", "node2">>, 250, 50)>>, 0))]

\* null (<<>>) without an <svg> element; `vbWidth || defaultWidth`
parseSvgInfo(svgContent, defaultWidth, defaultHeight) ==
    IF ~svgContent.present \/ ~svgContent.hasSvg THEN <<>>
    ELSE LET viewBox == Field(svgContent, "viewBox", <<>>)
             width == IF viewBox # <<>>
                      THEN (IF viewBox[3] # 0 THEN viewBox[3] ELSE defaultWidth)
                      ELSE IF svgContent.width # <<>> THEN svgContent.width[1]
                      ELSE defaultWidth
             height == IF viewBox # <<>>
                       THEN (IF viewBox[4] # 0 THEN viewBox[4] ELSE defaultHeight)
                       ELSE IF svgContent.height # <<>> THEN svgContent.height[1]
                       ELSE defaultHeight
         IN  <<[width |-> width, height |-> height,
                rotation |-> parseTransformFromSvg(svgContent).rotation,
                cleanedSvgContent |-> [svgContent EXCEPT !.rotation = 0]]>>

\* with a process or vector-art node at the top level the new node goes next
\* to the last of them, not to (x, y)
importSvgNodes(m, svgContent, x, y, flipHorizontal, flipVertical, timestamp) ==
    LET svgInfo == parseSvgInfo(svgContent, 200, 200)
        existingNodes == SelectSeq(m.children, IsFlatNode)
        lastNode == existingNodes[Len(existingNodes)]
        _x == IF Len(existingNodes) > 0 THEN lastNode.position.x + 250 ELSE x
        _y == IF Len(existingNodes) > 0 THEN lastNode.position.y ELSE y
    IN  IF svgInfo = <<>> THEN m
        ELSE addSvgNode(m, [id |-> <<"svg", "imported", NumStr(timestamp)>>,
                            x |-> _x, y |-> _y,
                            size |-> [width |-> svgInfo[1].width, height |-> svgInfo[1].height],
                            svgContent |-> svgInfo[1].cleanedSvgContent,
                            rotation |-> svgInfo[1].rotation,
                            flipHorizontal |-> flipHorizontal, flipVertical |-> flipVertical])

\* CustomMouseListener.addNode (src/src/model/ResizeCommand.ts)
addNode(m, timestamp, randomX, randomY) ==
    [m EXCEPT !.children =
        Append(@, createNode(<<"node", NumStr(timestamp)>>, randomX, randomY, {"out", "in"}))]

\* `${type}${index + 1}`: one part of the id
Numbered(type, n) ==
    CASE type = "in" /\ n = 1 -> "in1" [] type = "in" /\ n = 2 -> "in2"
      [] type = "in" /\ n = 3 -> "in3" [] type = "in" /\ n = 4 -> "in4"
      [] type = "out" /\ n = 1 -> "out1" [] type = "out" /\ n = 2 -> "out2"
      [] type = "out" /\ n = 3 -> "out3" [] type = "out" /\ n = 4 -> "out4"
      [] OTHER -> "more"

\* CustomMouseListener.duplicateItem: a JSON copy of the first top-level child
\* with this id, under the id `node-${Date.now()}`; only children that have a
\* portType are renamed; without such a child nothing is added
duplicateItem(m, id, timestamp) ==
    LET i == FindTopLevel(Field(m, "children", <<>>), id)
        newId == <<"node", NumStr(timestamp)>>
        copy == JsonCopy(m.children[i])
        moved == [copy EXCEPT !.id = newId,
                              !.position = [x |-> @.x + 20, y |-> @.y + 20]]
        renamed == [k \in 1..Len(moved.children) |->
                        LET child == moved.children[k] IN
                        IF Field(child, "portType", "") \in {"input", "output"}
                        THEN [child EXCEPT !.id =
                                newId \o <<Numbered(IF child.portType = "input" THEN "in"
                                                    ELSE "out", k)>>]
                        ELSE child]
    IN  IF i = 0 THEN m
        ELSE [m EXCEPT !.children = Append(@, [moved EXCEPT !.children = renamed])]

----------------------------------------------------------------------------
(* Rotation and flip from the context menu (src/src/model/ResizeCommand.ts) *)

\* (node.flipHorizontal || 0): the flip offset, 0 for null and for no property
FlipOffset(node, name) ==
    IF Field(node, name, <<>>) = <<>> THEN 0 ELSE node[name][1]

FlippedX(node, x, width) ==
    IF Field(node, "enableFlipHorizontal", FALSE)
    THEN node.size.width - x - width + FlipOffset(node, "flipHorizontal") ELSE x
FlippedY(node, y, height) ==
    IF Field(node, "enableFlipVertical", FALSE)
    THEN node.size.height - y - height + FlipOffset(node, "flipVertical") ELSE y

RECURSIVE ApplyFlippedPortElements(_, _, _, _)
ApplyFlippedPortElements(children, portElements, k, node) ==
    IF k > Len(portElements) THEN children
    ELSE LET e == portElements[k]
             i == FindPort(children, extractPortId(e, node.id, k - 1))
             position == calculatePortPositionWithRotation(
                             FlippedX(node, e.x, e.width), FlippedY(node, e.y, e.height),
                             e.width, e.height, Field(node, "rotation", 0),
                             node.size.width \div 2, node.size.height \div 2)
             updated == IF i = 0 THEN children
                        ELSE [children EXCEPT ![i].position = position]
         IN  ApplyFlippedPortElements(updated, portElements, k + 1, node)

updateSvgNodePortPositions(node) ==
    IF ~node.svgContent.hasSvg THEN node
    ELSE [node EXCEPT !.children =
            ApplyFlippedPortElements(node.children, node.svgContent.ports, 1, node)]

\* mutant: the stored position is transformed, not the cached original
updateProcessNodePortPositions_FromCurrent(node) ==
    [node EXCEPT !.children =
        [k \in 1..Len(node.children) |->
            LET port == node.children[k]
                original == Field(port, "originalPosition", port.position)
                position == calculatePortPositionWithRotation(
                                FlippedX(node, port.position.x, port.size.width),
                                FlippedY(node, port.position.y, port.size.height),
                                port.size.width, port.size.height,
                                Field(node, "rotation", 0),
                                node.size.width \div 2, node.size.height \div 2)
            IN  [With(port, "originalPosition", original) EXCEPT !.position = position]]]

updateProcessNodePortPositions(node) ==
    [node EXCEPT !.children =
        [k \in 1..Len(node.children) |->
            LET port == node.children[k]
                original == Field(port, "originalPosition", port.position)
                position == calculatePortPositionWithRotation(
                                FlippedX(node, original.x, port.size.width),
                                FlippedY(node, original.y, port.size.height),
                                port.size.width, port.size.height,
                                Field(node, "rotation", 0),
                                node.size.width \div 2, node.size.height \div 2)
            IN  [With(port, "originalPosition", original) EXCEPT !.position = position]]]

\* isSvgNode is svgContent !== undefined
updateNodePortPositions(node) ==
    IF "children" \notin DOMAIN node THEN node
    ELSE IF Field(node, "svgContent", NoSvg).present THEN updateSvgNodePortPositions(node)
    ELSE updateProcessNodePortPositions(node)

\* mutant: a left rotation from -360 wraps to 0
rotateLeftRotation_WrapToZero(currentRotation) ==
    IF currentRotation = -360 THEN 0 ELSE currentRotation - 90

rotateLeftRotation(currentRotation) ==
    IF currentRotation = -360 THEN -90 ELSE currentRotation - 90

\* mutant: the rotation wraps to 0
rotateRightRotation_WrapToZero(currentRotation) ==
    IF currentRotation = 360 THEN 0 ELSE currentRotation + 90

rotateRightRotation(currentRotation) ==
    IF currentRotation = 360 THEN 90 ELSE currentRotation + 90

\* the four handlers: the new model, and whether the handler threw (the node
\* is looked up among the top-level children only; reading a property of the
\* undefined result throws)
rotateLeftNode(m, id) ==
    LET i == FindTopLevel(m.children, id) IN
    IF i = 0 THEN [model |-> m, threw |-> TRUE]
    ELSE [model |-> [m EXCEPT !.children[i] =
                        updateNodePortPositions(
                            With(@, "rotation", rotateLeftRotation(Field(@, "rotation", 0))))],
          threw |-> FALSE]

rotateRightNode(m, id) ==
    LET i == FindTopLevel(m.children, id) IN
    IF i = 0 THEN [model |-> m, threw |-> TRUE]
    ELSE [model |-> [m EXCEPT !.children[i] =
                        updateNodePortPositions(
                            With(@, "rotation", rotateRightRotation(Field(@, "rotation", 0))))],
          threw |-> FALSE]

\* the toggle of flipHorizontalNode and flipVerticalNode
Toggled(modelNode, flip, enable) ==
    IF \/ modelNode.type = "node:process"
       \/ (modelNode.type = "node:svg" /\ Field(modelNode, flip, <<0>>) # <<>>)
    THEN With(modelNode, enable, ~Field(modelNode, enable, FALSE))
    ELSE modelNode

flipHorizontalNode(m, id) ==
    LET i == FindTopLevel(m.children, id) IN
    IF i = 0 THEN [model |-> m, threw |-> TRUE]
    ELSE [model |-> [m EXCEPT !.children[i] =
                        updateNodePortPositions(
                            Toggled(@, "flipHorizontal", "enableFlipHorizontal"))],
          threw |-> FALSE]

flipVerticalNode(m, id) ==
    LET i == FindTopLevel(m.children, id) IN
    IF i = 0 THEN [model |-> m, threw |-> FALSE]
    ELSE [model |-> [m EXCEPT !.children[i] =
                        updateNodePortPositions(
                            Toggled(@, "flipVertical", "enableFlipVertical"))],
          threw |-> FALSE]

----------------------------------------------------------------------------
(* The rendered scene and findPortInfo (port-utils) *)

\* every port of the tree: of the top-level nodes and of the nodes in packages
RECURSIVE PortsOf(_)
PortsOf(children) ==
    UNION {IF children[i].type = "port:flow" THEN {children[i]}
           ELSE IF IsEdge(children[i]) THEN {}
           ELSE PortsOf(children[i].children) : i \in 1..Len(children)}

\* FlowPortView: the <g> of a port; its DOM id is '<container>_<port id>',
\* kept as its '_'-separated segments
PortElement(port) ==
    [kind |-> "port",
     id |-> <<<<"sprotty", "container">>, port.id>>,
     classList |-> {"sprotty-port", "port-flow",
                    IF port.portType = "input" THEN "port-input" ELSE "port-output"}]

OtherElement == [kind |-> "other", id |-> <<>>, classList |-> {"sprotty-node"}]
NoElement == [kind |-> "null", id |-> <<>>, classList |-> {}]

maxAttempts == 10

\* what is under the pointer: nothing, an element outside every port, or an
\* element whose dist-th ancestor is the <g> of a rendered port
Targets(m) ==
    {[element |-> NoElement, dist |-> 0], [element |-> OtherElement, dist |-> 0]}
    \cup {[element |-> PortElement(p), dist |-> d] : p \in PortsOf(m.children), d \in {0, 1, maxAttempts}}

\* /^sprotty-[^_]+_(.+)$/ and the two patterns after it, on the segments
PortIdOfDomId(id) ==
    IF Len(id) = 2 /\ Len(id[1]) >= 2 /\ id[1][1] = "sprotty" THEN id[2]
    ELSE IF Len(id) >= 2 THEN id[Len(id)]
    ELSE <<>>

findPortInfo(target) ==
    LET el == target.element
        portId == PortIdOfDomId(el.id)
        bySuffix == IF Len(portId) >= 2 /\ portId[Len(portId)] = "in" THEN "input"
                    ELSE IF Len(portId) >= 2 /\ portId[Len(portId)] = "out" THEN "output"
                    ELSE "null"
        portType == IF bySuffix # "null" THEN bySuffix
                    ELSE IF "port-input" \in el.classList THEN "input"
                    ELSE IF "port-output" \in el.classList THEN "output"
                    ELSE "null"
    IN  IF /\ el.kind = "port"
           /\ target.dist < maxAttempts
           /\ "sprotty-port" \in el.classList
           /\ portType # "null"
           /\ portId # <<>>
        THEN [found |-> TRUE, id |-> portId, type |-> portType]
        ELSE [found |-> FALSE, id |-> <<>>, type |-> "null"]

\* getPortPosition: the centre of the port's client rectangle through the
\* inverse of the inner group's screen matrix (a, d: scale; e, f: translation)
ScreenCentres == {[x |-> 60, y |-> 40]}
ScreenMatrices == {[a |-> 1, d |-> 1, e |-> 0, f |-> 0], [a |-> 2, d |-> 2, e |-> 20, f |-> 0]}

getPortPosition(centre, ctm) ==
    [x |-> (centre.x - ctm.e) \div ctm.a, y |-> (centre.y - ctm.f) \div ctm.d]

\* FlowEdgeView (src/src/views.ts).  edge.source and edge.target are the scene
\* elements with the ids sourceId and targetId: the path of indexes from the
\* graph to the first such element, <<>> if the scene has none
RECURSIVE findElement(_, _)
findElement(children, id) ==
    LET Here(i) == children[i].id = id
        Below(i) == /\ "children" \in DOMAIN children[i]
                    /\ findElement(children[i].children, id) # <<>>
        hits == {i \in 1..Len(children) : Here(i) \/ Below(i)}
    IN  IF hits = {} THEN <<>>
        ELSE LET i == CHOOSE k \in hits : \A j \in hits : k <= j
             IN  IF Here(i) THEN <<i>>
                 ELSE <<i>> \o findElement(children[i].children, id)

\* element.parent of the element at this path (<<>> is the graph)
Parent(path) == SubSeq(path, 1, Len(path) - 1)

\* the while loop: current runs from the parent up to the graph, which it excludes
RECURSIVE AddAncestors(_, _, _)
AddAncestors(children, current, point) ==
    IF current = <<>> THEN point
    ELSE LET bounds == NodeAt(children, current).position
         IN  AddAncestors(children, Parent(current),
                          [x |-> point.x + bounds.x, y |-> point.y + bounds.y])

\* mutant: only the owning node's position is added
getAbsolutePosition_OwnerOnly(children, path) ==
    LET element == NodeAt(children, path)
        owner == NodeAt(children, Parent(path))
    IN  [x |-> element.position.x + element.size.width \div 2 + owner.position.x,
         y |-> element.position.y + element.size.height \div 2 + owner.position.y]

\* bounds of a scene element are its position and size; the sizes are even
getAbsolutePosition(children, path) ==
    LET element == NodeAt(children, path)
    IN  AddAncestors(children, Parent(path),
                     [x |-> element.position.x + element.size.width \div 2,
                      y |-> element.position.y + element.size.height \div 2])

\* createEdgePath up to the two points that createOrthogonalPath is given;
\* nothing is drawn for an edge whose source or target is missing
createEdgePath(children, edge) ==
    LET source == findElement(children, edge.sourceId)
        target == findElement(children, edge.targetId)
    IN  IF source = <<>> \/ target = <<>>
        THEN [drawn |-> FALSE, sourcePoint |-> <<>>, targetPoint |-> <<>>]
        ELSE [drawn |-> TRUE,
              sourcePoint |-> <<getAbsolutePosition(children, source)>>,
              targetPoint |-> <<getAbsolutePosition(children, target)>>]

----------------------------------------------------------------------------
(* EdgeCreator (src/src/edge-creator.ts) *)

Idle == [isCreating |-> FALSE, sourcePortId |-> <<>>, sourcePosition |-> <<>>]

NewPath == CHOOSE k \in 1..(Cardinality(domPaths) + 1) : k \notin domPaths

\* mutant: any port starts a drag
startsEdge_AnyPort(portInfo) == portInfo.found

\* handleMouseDown line 50: the press starts a drag
startsEdge(portInfo) == portInfo.found /\ portInfo.type = "output"

\* mutant: any port completes the edge
completesEdge_AnyPort(targetPortInfo, sourcePortId) ==
    targetPortInfo.found /\ sourcePortId # <<>>

\* handleMouseUp line 117: the release asks for an edge
completesEdge(targetPortInfo, sourcePortId) ==
    targetPortInfo.found /\ targetPortInfo.type = "input" /\ sourcePortId # <<>>

\* mutant: onModelUpdate is called whatever addEdge returned
release_AlwaysUpdates(m, counter, sourcePortId, target, fault) ==
    LET targetPortInfo == findPortInfo(target)
        r == addEdge(m, counter, sourcePortId, targetPortInfo.id)
    IN  IF fault # "release" /\ target.element.kind # "null"
           /\ completesEdge(targetPortInfo, sourcePortId)
        THEN [model |-> r.model, edgeCounter |-> r.edgeCounter, calls |-> 1,
              src |-> sourcePortId, tgt |-> targetPortInfo.id,
              success |-> r.success, message |-> r.message, updated |-> TRUE]
        ELSE [model |-> m, edgeCounter |-> counter, calls |-> 0,
              src |-> <<>>, tgt |-> <<>>,
              success |-> FALSE, message |-> "", updated |-> FALSE]

\* the try block of handleMouseUp: what it does to the model, how many times
\* it calls addEdge and whether it calls onModelUpdate; fault = "release" is
\* document.elementFromPoint throwing
release(m, counter, sourcePortId, target, fault) ==
    LET targetPortInfo == findPortInfo(target)
        r == addEdge(m, counter, sourcePortId, targetPortInfo.id)
    IN  IF fault # "release" /\ target.element.kind # "null"
           /\ completesEdge(targetPortInfo, sourcePortId)
        THEN [model |-> r.model, edgeCounter |-> r.edgeCounter, calls |-> 1,
              src |-> sourcePortId, tgt |-> targetPortInfo.id,
              success |-> r.success, message |-> r.message, updated |-> r.success]
        ELSE [model |-> m, edgeCounter |-> counter, calls |-> 0,
              src |-> <<>>, tgt |-> <<>>,
              success |-> FALSE, message |-> "", updated |-> FALSE]

\* cleanup(); fault names the statement of its try block that throws, if any
cleanup(fault, st, line, paths, targets) ==
    IF fault = "cleanupQuery"
    THEN [state |-> st, feedbackLine |-> line, domPaths |-> paths, validTargets |-> targets]
    ELSE IF fault = "cleanupRemove" /\ line # <<>> /\ line[1] \in paths
    THEN [state |-> st, feedbackLine |-> line, domPaths |-> paths, validTargets |-> {}]
    ELSE [state |-> Idle, feedbackLine |-> <<>>,
          domPaths |-> IF line # <<>> THEN paths \ {line[1]} ELSE paths,
          validTargets |-> {}]

----------------------------------------------------------------------------
(* SprottyApp: the graph model kept in step with the page
   (src/unnamed/part_001) *)

\* baseDiv: containerId, 'sprotty-container' unless configured; the id of a
\* rendered element is the base and the element's id joined by '_' (here the
\* sequence of its '_'-separated segments, each a sequence of '-'-separated
\* parts)
containerId == <<"sprotty", "container">>
DomId(id) == <<containerId, id>>

\* id.match(/sprotty[^_]*_(.+)$/): <<>> when nothing matches, else <<match[1]>>,
\* for the ids of the model, none of which holds a '_'
NodeIdOfElement(domId) ==
    IF Len(domId) = 2 /\ \E j \in 1..Len(domId[1]) : domId[1][j] = "sprotty"
    THEN <<domId[2]>>
    ELSE <<>>

\* the '.sprotty-node' elements of a rendered tree, in document order: one per
\* process, vector-art and package node, the children of a package inside it,
\* each with transform translate(position.x, position.y)
RECURSIVE Rendered(_)
Rendered(children) ==
    IF children = <<>> THEN <<>>
    ELSE LET child == Head(children)
             own == IF IsNode(child)
                    THEN <<[id |-> <<DomId(child.id)>>, transform |-> <<child.position>>]>>
                         \o (IF IsPackage(child) THEN Rendered(child.children) ELSE <<>>)
                    ELSE <<>>
         IN  own \o Rendered(Tail(children))

\* an element without an id, with an id that does not match, or without a
\* transform is skipped; updateNodePosition does nothing for an id of no node
RECURSIVE syncNodePositionsFromDOM(_, _)
syncNodePositionsFromDOM(m, nodeElements) ==
    IF nodeElements = <<>> THEN m
    ELSE LET nodeElement == Head(nodeElements)
             match == IF nodeElement.id = <<>> THEN <<>>
                      ELSE NodeIdOfElement(nodeElement.id[1])
             synced == IF match = <<>> \/ nodeElement.transform = <<>> THEN m
                       ELSE updateNodePosition(m, match[1], nodeElement.transform[1].x,
                                               nodeElement.transform[1].y)
         IN  syncNodePositionsFromDOM(synced, Tail(nodeElements))

\* updateModel, the callback of the mouse listener and of the edge creator:
\* what it does to the graph model (the page is rendered afterwards)
updateModel(m, nodeElements) == syncNodePositionsFromDOM(m, nodeElements)

\* mutant: a node that is gone is put back with the new size
syncNodeSizeFromAction_Restoring(m, action) ==
    IF action.nodeId # <<>> /\ findNode(m.children, action.nodeId) = <<>>
    THEN [model |-> [m EXCEPT !.children =
                        Append(@, [createNode(action.nodeId, 0, 0, {}) EXCEPT
                                      !.size = [width |-> action.newBounds.width,
                                                height |-> action.newBounds.height]])],
          threw |-> FALSE]
    ELSE updateNodeSize(m, action.nodeId, action.newBounds.width, action.newBounds.height)

\* `if (action.nodeId && action.newBounds)`: the resize action always carries
\* its bounds; an empty id is falsy
syncNodeSizeFromAction(m, action) ==
    IF action.nodeId # <<>>
    THEN updateNodeSize(m, action.nodeId, action.newBounds.width, action.newBounds.height)
    ELSE [model |-> m, threw |-> FALSE]

\* loadFromJson: the document becomes the model before its children are read
loadFromJson(counter, jsonModel) ==
    IF "children" \in DOMAIN jsonModel
    THEN [model |-> loadFromJsonModel(jsonModel),
          edgeCounter |-> loadFromJsonCounter(jsonModel), threw |-> FALSE]
    ELSE [model |-> jsonModel, edgeCounter |-> counter, threw |-> TRUE]

\* the editor before monaco.editor.create has run
NoEditor == [present |-> FALSE, value |-> [kind |-> "text"],
             isUpdatingFromMonaco |-> FALSE, monacoUpdateTimer |-> 0]

\* JSON.stringify(getModel(), null, 2): the text of a document, kept as the
\* document that JSON.parse makes of it
Stringified(m) == [kind |-> "json", doc |-> JsonCopy(m)]

\* the handle setTimeout returns: one that no scheduled callback has
NewHandle(mon, tm) ==
    CHOOSE n \in 1..(Len(tm) + 2) :
        /\ n # mon.monacoUpdateTimer
        /\ \A j \in 1..Len(tm) : tm[j].kind = "monaco" => tm[j].handle # n

\* mutant: the timer that is scheduled already is not cleared
onMonacoContentChanged_NoClear(mon, tm) ==
    LET handle == NewHandle(mon, tm)
    IN  [monaco |-> [mon EXCEPT !.monacoUpdateTimer = handle],
         timers |-> Append(tm, [kind |-> "monaco", handle |-> handle])]

\* onMonacoContentChanged: clearTimeout(monacoUpdateTimer), then a new timer
\* for updateDiagramFromMonaco
onMonacoContentChanged(mon, tm) ==
    LET cleared == SelectSeq(tm, LAMBDA t :
                        ~(t.kind = "monaco" /\ t.handle = mon.monacoUpdateTimer))
        handle == NewHandle(mon, cleared)
    IN  [monaco |-> [mon EXCEPT !.monacoUpdateTimer = handle],
         timers |-> Append(cleared, [kind |-> "monaco", handle |-> handle])]

\* getValue() !== jsonString
ShowsModel(mon, m) == mon.value.kind = "json" /\ mon.value.doc = JsonCopy(m)

\* updateMonacoEditorContent: setValue fires onDidChangeModelContent
updateMonacoEditorContent(mon, tm, m) ==
    IF mon.present /\ ~mon.isUpdatingFromMonaco /\ ~ShowsModel(mon, m)
    THEN onMonacoContentChanged([mon EXCEPT !.value = Stringified(m)], tm)
    ELSE [monaco |-> mon, timers |-> tm]

\* `!newModel.type || !newModel.id`
ValidGraphModel(doc) == "type" \in DOMAIN doc /\ "id" \in DOMAIN doc

\* updateDiagramFromMonaco: JSON.parse throws on a text that is no JSON and
\* loadFromJson on a document without children; both are caught, and the
\* timer that resets the flag is set after loadFromJson and updateModel
updateDiagramFromMonaco(mon, tm, m, counter) ==
    IF ~mon.present \/ mon.value.kind # "json" \/ ~ValidGraphModel(mon.value.doc)
    THEN [monaco |-> mon, timers |-> tm, model |-> m, edgeCounter |-> counter,
          flagged |-> FALSE, threw |-> mon.present /\ mon.value.kind # "json"]
    ELSE LET r == loadFromJson(counter, mon.value.doc)
         IN  [monaco |-> [mon EXCEPT !.isUpdatingFromMonaco = TRUE],
              timers |-> IF r.threw THEN tm ELSE Append(tm, [kind |-> "flag"]),
              model |-> r.model, edgeCounter |-> r.edgeCounter,
              flagged |-> TRUE, threw |-> r.threw]

----------------------------------------------------------------------------
(* CustomMouseListener: the context menu (src/src/model/ResizeCommand.ts) *)

\* the menu items of the model: Delete of the node menu and of the edge menu
MenuItems == {"deleteNode", "deleteEdge"}

\* no listener is attached and every bound*Handler is null; requested is the
\* target of the latest request per item (history)
NoHandlers == [listeners |-> [item \in MenuItems |-> <<>>],
               bound |-> [item \in MenuItems |-> <<>>],
               requested |-> [item \in MenuItems |-> <<>>]]

\* removeEventListener: the listener is taken off if it is attached
RemoveListener(listeners, handler) ==
    IF \E i \in 1..Len(listeners) : listeners[i] = handler
    THEN LET k == CHOOSE i \in 1..Len(listeners) :
                    listeners[i] = handler /\ \A j \in 1..(i - 1) : listeners[j] # handler
         IN  [j \in 1..(Len(listeners) - 1) |->
                IF j < k THEN listeners[j] ELSE listeners[j + 1]]
    ELSE listeners

\* attachClickHandler on an element that exists: the listeners of the element
\* afterwards and the handler returned; a handler is the id its closure holds
attachClickHandler(listeners, boundHandler, newHandler) ==
    LET cleared == IF boundHandler # <<>> THEN RemoveListener(listeners, boundHandler[1])
                   ELSE listeners
    IN  [listeners |-> Append(cleared, newHandler), bound |-> <<newHandler>>]

\* contextMenu on a node (item deleteNode) or an edge (item deleteEdge)
contextMenu(mn, item, targetId) ==
    LET r == attachClickHandler(mn.listeners[item], mn.bound[item], targetId)
    IN  [listeners |-> [mn.listeners EXCEPT ![item] = r.listeners],
         bound |-> [mn.bound EXCEPT ![item] = r.bound],
         requested |-> [mn.requested EXCEPT ![item] = <<targetId>>]]

----------------------------------------------------------------------------
(* ResizeCommand: the resize of a node of the view *)

\* the view before the first model is set, with no command executed
NoView == [root |-> <<>>, command |-> <<>>]

\* element.bounds: the position and the size of a shape element of the view
BoundsOf(element) ==
    [x |-> element.position.x, y |-> element.position.y,
     width |-> element.size.width, height |-> element.size.height]

\* element.bounds = b
WithBounds(element, b) ==
    [element EXCEPT !.position = [x |-> b.x, y |-> b.y],
                    !.size = [width |-> b.width, height |-> b.height]]

\* ResizeCommand.distributeAlongAxis (the inputs of the model are those for
\* which the quotients are integers)
commandDistributeAlongAxis(index, total, length) ==
    IF total = 1 THEN (length - PORT_SIZE) \div 2
    ELSE LET usableLength == length - PORT_SIZE
             spacing == usableLength \div (total - 1)
         IN  spacing * index

\* child.side || 'left'
SideOrLeft(child) == IF child.side = "" THEN "left" ELSE child.side

\* portsPerSide[side].push(child) throws when side is not one of the four keys
GroupingThrows(children) ==
    \E k \in 1..Len(children) :
        children[k].type = "port:flow" /\ SideOrLeft(children[k]) \notin Range(Sides)

\* ResizeCommand.updatePortPositions: port.bounds gets the new x and y and
\* keeps its width and height
updatePortPositions(node, width, height) ==
    LET children == node.children
        OnSide(j, side) == children[j].type = "port:flow" /\ SideOrLeft(children[j]) = side
    IN  [node EXCEPT !.children =
            [k \in 1..Len(children) |->
                IF children[k].type # "port:flow" THEN children[k]
                ELSE LET side == SideOrLeft(children[k])
                         index == Cardinality({j \in 1..(k - 1) : OnSide(j, side)})
                         totalOnSide == Cardinality({j \in 1..Len(children) : OnSide(j, side)})
                         x == CASE side = "left" -> -PORT_OFFSET
                                [] side = "right" -> width - PORT_OFFSET
                                [] side = "top" -> commandDistributeAlongAxis(index, totalOnSide, width)
                                [] side = "bottom" -> commandDistributeAlongAxis(index, totalOnSide, width)
                         y == CASE side = "left" -> commandDistributeAlongAxis(index, totalOnSide, height)
                                [] side = "right" -> commandDistributeAlongAxis(index, totalOnSide, height)
                                [] side = "top" -> -PORT_OFFSET
                                [] side = "bottom" -> height - PORT_OFFSET
                     IN  [children[k] EXCEPT !.position = [x |-> x, y |-> y]]]]

\* the node gets the bounds b and its ports the positions for the size of b;
\* the bounds are written before the ports are grouped, so a throw leaves
\* them written
Resized(root, path, b) ==
    LET sized == WithBounds(NodeAt(root, path), b) IN
    IF "children" \notin DOMAIN sized THEN [root |-> ReplaceAt(root, path, sized), threw |-> FALSE]
    ELSE IF GroupingThrows(sized.children)
    THEN [root |-> ReplaceAt(root, path, sized), threw |-> TRUE]
    ELSE [root |-> ReplaceAt(root, path, updatePortPositions(sized, b.width, b.height)),
          threw |-> FALSE]

\* ResizeCommand.execute of a new command for the node nodeId (index.getById,
\* for the id of a node): the view, with the command and its oldBounds, and
\* whether the call threw
execute(v, nodeId, newBounds) ==
    LET path == findNode(v.root, nodeId) IN
    IF path = <<>>
    THEN [view |-> [v EXCEPT !.command =
                        <<[nodeId |-> nodeId, newBounds |-> newBounds, oldBounds |-> <<>>]>>],
          threw |-> FALSE]
    ELSE LET r == Resized(v.root, path, newBounds) IN
         [view |-> [root |-> r.root,
                    command |-> <<[nodeId |-> nodeId, newBounds |-> newBounds,
                                   oldBounds |-> <<BoundsOf(NodeAt(v.root, path))>>]>>],
          threw |-> r.threw]

\* ResizeCommand.undo of the command executed last
undo(v) ==
    LET command == v.command[1]
        path == findNode(v.root, command.nodeId)
    IN  IF path = <<>> \/ command.oldBounds = <<>>
        THEN [view |-> [v EXCEPT !.command = <<>>], threw |-> FALSE]
        ELSE LET r == Resized(v.root, path, command.oldBounds[1]) IN
             [view |-> [root |-> r.root, command |-> <<>>], threw |-> r.threw]

\* the record kept of a call: its arguments (src, tgt), what addEdge returned
\* (success, message), the number of addEdge calls made, whether onModelUpdate
\* was called, how findPortInfo classified the element under the pointer and
\* whether an edge creation was in progress when the event arrived
Call(op, src, tgt, success, message, calls, updated, over, was) ==
    [op |-> op, src |-> src, tgt |-> tgt, success |-> success, message |-> message,
     calls |-> calls, updated |-> updated, over |-> over, was |-> was]

----------------------------------------------------------------------------
(* Actions *)

Init ==
    /\ model = createInitialModel
    /\ edgeCounter = 0
    /\ maxAllocated = 0
    /\ state = Idle
    /\ feedbackLine = <<>>
    /\ domPaths = {}
    /\ validTargets = {}
    /\ timers = <<>>
    /\ dom = <<>>
    /\ monaco = NoEditor
    /\ menu = NoHandlers
    /\ view = NoView
    /\ last = Call("new", <<>>, <<>>, TRUE, "", 0, FALSE, "null", FALSE)

creatorVars == <<state, feedbackLine, domPaths, validTargets>>
pageVars == <<timers, dom>>

\* Date.now(): the millisecond that the last call read, 1 before any call; a
\* call reads the same millisecond or a later one
Clock == Field(last, "now", 1)
Times == {t \in {Clock, Clock + 1} : t <= MaxClock}

LoadFromJson(t) ==
    /\ model' = loadFromJsonModel(LoadableTrees[t])
    /\ edgeCounter' = loadFromJsonCounter(LoadableTrees[t])
    /\ last' = With(Call("loadFromJson", <<NumStr(t)>>, <<>>, TRUE, "", 0, FALSE, "null",
                          state.isCreating), "now", Clock)
    /\ UNCHANGED <<maxAllocated, creatorVars, pageVars, monaco, menu, view>>

AddEdge(sourcePortId, targetPortId) ==
    LET r == addEdge(model, edgeCounter, sourcePortId, targetPortId) IN
    /\ r.success => (edgeCounter < MaxCounter /\ Len(model.children) < MaxChildren)
    /\ model' = r.model
    /\ edgeCounter' = r.edgeCounter
    /\ maxAllocated' = IF r.success THEN Max(maxAllocated, r.edgeCounter) ELSE maxAllocated
    /\ last' = Call("addEdge", sourcePortId, targetPortId, r.success, r.message, 1, FALSE,
                    "null", state.isCreating)
    /\ UNCHANGED <<creatorVars, pageVars, monaco, menu, view>>

\* the ids of the elements a context menu can open on
RECURSIVE ElementIds(_)
ElementIds(children) ==
    UNION {IF children[i].type = "port:flow" THEN {}
           ELSE IF IsEdge(children[i]) THEN {children[i].id}
           ELSE {children[i].id} \cup ElementIds(children[i].children) : i \in 1..Len(children)}

\* the Delete entry of the context menu: deleteItem and then the update callback
DeleteItem(id) ==
    /\ model' = updateModel(deleteItem(model, id), dom)
    /\ monaco' = updateMonacoEditorContent(monaco, timers, model').monaco
    /\ timers' = updateMonacoEditorContent(monaco, timers, model').timers
    /\ last' = With(Call("deleteItem", id, <<>>, TRUE, "", 0, TRUE, "null", state.isCreating),
                     "now", Clock)
    /\ UNCHANGED <<edgeCounter, maxAllocated, creatorVars, dom, menu, view>>

HandleMouseDown(target, hasGroup, centre, ctm) ==
    LET portInfo == findPortInfo(target) IN
    /\ IF startsEdge(portInfo)
       THEN /\ state' = [isCreating |-> TRUE, sourcePortId |-> portInfo.id,
                         sourcePosition |-> <<getPortPosition(centre, ctm)>>]
            /\ IF hasGroup
               THEN /\ Cardinality(domPaths) < MaxPaths
                    /\ feedbackLine' = <<NewPath>>
                    /\ domPaths' = domPaths \cup {NewPath}
               ELSE UNCHANGED <<feedbackLine, domPaths>>
       ELSE UNCHANGED <<state, feedbackLine, domPaths>>
    /\ last' = Call("mouseDown", portInfo.id, <<>>, FALSE, "", 0, FALSE,
                    portInfo.type, state.isCreating)
    /\ UNCHANGED <<model, edgeCounter, maxAllocated, validTargets, pageVars, monaco, menu, view>>

HandleMouseMove(target, hasSvg) ==
    LET targetPortInfo == findPortInfo(target) IN
    /\ IF ~state.isCreating \/ feedbackLine = <<>> \/ state.sourcePosition = <<>> \/ ~hasSvg
       THEN UNCHANGED validTargets
       ELSE validTargets' = IF target.element.kind # "null" /\ targetPortInfo.found
                               /\ targetPortInfo.type = "input"
                            THEN {targetPortInfo.id} ELSE {}
    /\ last' = Call("mouseMove", <<>>, <<>>, FALSE, "", 0, FALSE,
                    targetPortInfo.type, state.isCreating)
    /\ UNCHANGED <<model, edgeCounter, maxAllocated, state, feedbackLine, domPaths, pageVars, monaco, menu, view>>

HandleMouseUp(target, fault) ==
    LET r == release(model, edgeCounter, state.sourcePortId, target, fault)
        c == cleanup(fault, state, feedbackLine, domPaths, validTargets)
    IN
    IF ~state.isCreating
    THEN /\ last' = Call("mouseUp", <<>>, <<>>, FALSE, "", 0, FALSE,
                         findPortInfo(target).type, FALSE)
         /\ UNCHANGED <<model, edgeCounter, maxAllocated, creatorVars, pageVars, monaco, menu, view>>
    ELSE /\ r.success => (edgeCounter < MaxCounter /\ Len(model.children) < MaxChildren)
         /\ model' = r.model
         /\ edgeCounter' = r.edgeCounter
         /\ maxAllocated' = IF r.success THEN Max(maxAllocated, r.edgeCounter)
                            ELSE maxAllocated
         /\ state' = c.state
         /\ feedbackLine' = c.feedbackLine
         /\ domPaths' = c.domPaths
         /\ validTargets' = c.validTargets
         /\ last' = Call("mouseUp", r.src, r.tgt, r.success, r.message, r.calls, r.updated,
                         findPortInfo(target).type, TRUE)
         /\ UNCHANGED <<pageVars, monaco, menu, view>>

Keys == {"Escape", "d"}

HandleKeyDown(key, fault) ==
    LET c == cleanup(fault, state, feedbackLine, domPaths, validTargets) IN
    /\ IF key = "Escape" /\ state.isCreating
       THEN /\ state' = c.state
            /\ feedbackLine' = c.feedbackLine
            /\ domPaths' = c.domPaths
            /\ validTargets' = c.validTargets
       ELSE UNCHANGED creatorVars
    /\ last' = Call("keyDown", <<key>>, <<>>, FALSE, "", 0, FALSE, "null", state.isCreating)
    /\ UNCHANGED <<model, edgeCounter, maxAllocated, pageVars, monaco, menu, view>>

----------------------------------------------------------------------------
(* The geometry functions and createNodeWithPorts applied to arguments; the
   call and what it returned are kept in last, with the call before it when
   that was a call of the same function *)

MaxOnSide == 4

Flat(r) == [f \in DOMAIN r \ {"prev"} |-> r[f]]
Chained(op, r) == [prev |-> IF last.op = op THEN <<Flat(last)>> ELSE <<>>] @@ r

\* (index, total, length) with 0 <= index < total for which the JavaScript
\* quotients are integers
AxisArguments ==
    {a \in (0..(MaxOnSide - 1)) \X (1..MaxOnSide) \X {4, 16, 28, 52, 100} :
        /\ a[1] < a[2]
        /\ IF a[2] = 1 THEN (a[3] - PORT_SIZE) % 2 = 0
           ELSE (a[3] - PORT_SIZE) % (a[2] - 1) = 0}

DistributeAlongAxis(index, total, length) ==
    /\ last' = Chained("distributeAlongAxis",
                       [op |-> "distributeAlongAxis", index |-> index, total |-> total,
                        length |-> length,
                        result |-> distributeAlongAxis(index, total, length)])
    /\ UNCHANGED <<model, edgeCounter, maxAllocated, creatorVars, pageVars, monaco, menu, view>>

\* the stored rotations: the multiples of 90 from -360 to 360
Angles == {90 * k - 360 : k \in 0..8}
Points == {[x |-> 0, y |-> 30], [x |-> 120, y |-> 30], [x |-> 60, y |-> 30],
           [x |-> 10, y |-> -6]}
Centres == {[x |-> 60, y |-> 30], [x |-> 0, y |-> 0]}

\* rotatePoint on a point of Points, or on the point that the call before it
\* returned, about the same centre
RotatePoint(p, c, angleDegrees) ==
    /\ \/ p \in Points
       \/ last.op = "rotatePoint" /\ p = last.result /\ c = last.centre
    /\ last' = Chained("rotatePoint",
                       [op |-> "rotatePoint", point |-> p, centre |-> c,
                        angle |-> angleDegrees,
                        result |-> rotatePoint(p.x, p.y, c.x, c.y, angleDegrees)])
    /\ UNCHANGED <<model, edgeCounter, maxAllocated, creatorVars, pageVars, monaco, menu, view>>

RotatePointArguments ==
    (Points \cup (IF last.op = "rotatePoint" THEN {last.result} ELSE {})) \X Centres \X Angles

\* port rectangles on a 120 x 60 node: on its sides, inside it, centred on it
PortRects == {[x |-> -8, y |-> 22, width |-> 16, height |-> 16],
              [x |-> 112, y |-> 22, width |-> 16, height |-> 16],
              [x |-> 52, y |-> -8, width |-> 16, height |-> 16],
              [x |-> 52, y |-> 22, width |-> 16, height |-> 16],
              [x |-> 0, y |-> 40, width |-> 20, height |-> 20]}

CalculatePortPositionWithRotation(rect, rotation, c) ==
    /\ last' = Chained("calculatePortPositionWithRotation",
                       [op |-> "calculatePortPositionWithRotation", rect |-> rect,
                        rotation |-> rotation, centre |-> c,
                        result |-> calculatePortPositionWithRotation(
                                       rect.x, rect.y, rect.width, rect.height,
                                       rotation, c.x, c.y)])
    /\ UNCHANGED <<model, edgeCounter, maxAllocated, creatorVars, pageVars, monaco, menu, view>>

\* port lists given to createNodeWithPorts: default ids on two sides, three
\* ports on one side, the four sides interleaved, the explicit ids that
\* createNode gives, explicit indexes, and no port
PortLists ==
    << <<PortConfig("input", "left", <<>>, <<>>), PortConfig("output", "right", <<>>, <<>>)>>,
       <<PortConfig("input", "left", <<>>, <<>>), PortConfig("input", "left", <<>>, <<>>),
         PortConfig("input", "left", <<>>, <<>>)>>,
       <<PortConfig("input", "left", <<>>, <<>>), PortConfig("output", "top", <<>>, <<>>),
         PortConfig("output", "left", <<>>, <<>>), PortConfig("input", "bottom", <<>>, <<>>),
         PortConfig("output", "right", <<>>, <<>>), PortConfig("output", "top", <<>>, <<>>)>>,
       <<PortConfig("input", "left", << <<"in">> >>, <<>>),
         PortConfig("output", "right", << <<"out">> >>, <<>>)>>,
       <<PortConfig("input", "left", <<>>, <<1>>), PortConfig("output", "left", <<>>, <<0>>)>>,
       <<>> >>

NodeSizes == {[width |-> 120, height |-> 60], [width |-> 200, height |-> 100]}

NodeConfigs ==
    {[id |-> id, x |-> 100, y |-> 100, ports |-> PortLists[l], size |-> size,
      flipHorizontal |-> <<>>, flipVertical |-> <<>>, rotation |-> 0] :
        id \in {<<"n1">>, <<"node", "7">>}, l \in 1..Len(PortLists), size \in NodeSizes}

CreateNodeWithPorts(config) ==
    /\ last' = Chained("createNodeWithPorts",
                       [op |-> "createNodeWithPorts", config |-> config,
                        result |-> createNodeWithPorts(config)])
    /\ UNCHANGED <<model, edgeCounter, maxAllocated, creatorVars, pageVars, monaco, menu, view>>

----------------------------------------------------------------------------
(* Position and size updates *)

\* ids that callers pass: nodes at depth 1, 2 and 3, and an id of no node
EditIds == {<<"n1">>, <<"inner">>, <<"child", "node1">>, <<"p3">>, <<"q1">>, <<"ghost">>}
EditPositions == {[x |-> 40, y |-> 70], [x |-> 0, y |-> 0]}
EditSizes == {[width |-> 200, height |-> 100], [width |-> 120, height |-> 60]}

UpdateNodePosition(nodeId, x, y) ==
    /\ model' = updateNodePosition(model, nodeId, x, y)
    /\ last' = [op |-> "updateNodePosition", id |-> nodeId, x |-> x, y |-> y,
                threw |-> FALSE]
    /\ UNCHANGED <<edgeCounter, maxAllocated, creatorVars, pageVars, monaco, menu, view>>

UpdateNodeSize(nodeId, width, height) ==
    LET r == updateNodeSize(model, nodeId, width, height) IN
    /\ model' = r.model
    /\ last' = [op |-> "updateNodeSize", id |-> nodeId, width |-> width,
                height |-> height, threw |-> r.threw]
    /\ UNCHANGED <<edgeCounter, maxAllocated, creatorVars, pageVars, monaco, menu, view>>

\* FlowEdgeView.render of the edge that is the i-th child of the graph
CreateEdgePath(i) ==
    LET edge == model.children[i]
        r == createEdgePath(model.children, edge) IN
    /\ IsEdge(edge)
    /\ last' = [op |-> "createEdgePath", id |-> edge.id, src |-> edge.sourceId,
                tgt |-> edge.targetId, drawn |-> r.drawn,
                sourcePoint |-> r.sourcePoint, targetPoint |-> r.targetPoint]
    /\ UNCHANGED <<model, edgeCounter, maxAllocated, creatorVars, pageVars, monaco, menu, view>>

----------------------------------------------------------------------------
(* Rotation and flip from the context menu of a node *)

MaxTurns == 5

\* the ids of the nodes, at any depth
RECURSIVE NodeIdsOf(_)
NodeIdsOf(children) ==
    UNION {IF IsFlatNode(children[i]) THEN {children[i].id}
           ELSE IF IsPackage(children[i])
           THEN {children[i].id} \cup NodeIdsOf(children[i].children)
           ELSE {} : i \in 1..Len(children)}

\* the record of a transform; for rotate-right, streak counts the consecutive
\* calls on this node and start is the node's rotation before the first of them;
\* net is, modulo 4, the number of right rotations minus the number of left
\* rotations in the run of rotations of this node that the call belongs to,
\* and fromZero says that the node's rotation was 0 before the first of them
Transform(op, id, r) ==
    LET i == FindTopLevel(model.children, id)
        before == IF i = 0 THEN 0 ELSE Field(model.children[i], "rotation", 0)
        continues == last.op = op /\ last.id = id
        rotates == op \in {"rotateLeft", "rotateRight"} /\ ~r.threw
        inRun == last.op \in {"rotateLeft", "rotateRight"} /\ last.id = id
        fromZero == rotates /\ (IF inRun THEN last.fromZero ELSE before = 0)
        counted == IF inRun THEN last.net ELSE 0
        step == IF op = "rotateRight" THEN 1 ELSE 3
    IN  [op |-> op, id |-> id, threw |-> r.threw,
         streak |-> IF op # "rotateRight" THEN 0
                    ELSE IF continues THEN last.streak + 1 ELSE 1,
         start |-> IF op # "rotateRight" THEN 0
                   ELSE IF continues THEN last.start ELSE before,
         fromZero |-> fromZero,
         net |-> IF fromZero THEN (counted + step) % 4 ELSE 0]

Transformed(op, id, r) ==
    /\ (op = "rotateRight" /\ last.op = op /\ last.id = id) => last.streak < MaxTurns
    /\ model' = r.model
    /\ last' = Transform(op, id, r)
    /\ UNCHANGED <<edgeCounter, maxAllocated, creatorVars, pageVars, monaco, menu, view>>

RotateLeftNode(id) == Transformed("rotateLeft", id, rotateLeftNode(model, id))
RotateRightNode(id) == Transformed("rotateRight", id, rotateRightNode(model, id))
FlipHorizontalNode(id) == Transformed("flipHorizontal", id, flipHorizontalNode(model, id))
FlipVerticalNode(id) == Transformed("flipVertical", id, flipVerticalNode(model, id))

----------------------------------------------------------------------------
(* Creation, import and export *)

\* the record of a creation call: the millisecond it read and its arguments
Built(op, id, now, threw, args) ==
    [op |-> op, id |-> id, now |-> now, threw |-> threw, args |-> args]

HasChildren == "children" \in DOMAIN model
\* there is room for one more top-level element, and the element that the call
\* appended lies within the explored part of the plane
Room == Len(model.children) < MaxNodes
Within(m) == LET node == m.children[Len(m.children)]
             IN  node.position.x <= MaxX /\ node.position.y <= MaxY
\* ids of the nodes a context menu can open on
MenuNodeIds == IF HasChildren THEN NodeIdsOf(model.children) ELSE {}

\* configs of addNodeWithPorts: default port ids, one of them with a rotation
BuildConfigs ==
    {[id |-> c[1], x |-> 100, y |-> 100,
      ports |-> <<PortConfig("input", "left", <<>>, <<>>),
                  PortConfig("output", "right", <<>>, <<>>)>>,
      size |-> [width |-> 120, height |-> 60],
      flipHorizontal |-> <<>>, flipVertical |-> <<>>, rotation |-> c[2]] :
        c \in {<<<<"a1">>, 0>>, <<<<"a2">>, 90>>}}

\* model.children.push on a model without children throws after the node was made
AddNodeWithPorts(config) ==
    /\ HasChildren => (Room /\ config.id \notin NodeIdsOf(model.children))
    /\ model' = IF HasChildren THEN addNodeWithPorts(model, config) ELSE model
    /\ last' = Built("addNodeWithPorts", config.id, Clock, ~HasChildren, [rotation |-> config.rotation])
    /\ UNCHANGED <<edgeCounter, maxAllocated, creatorVars, pageVars, monaco, menu, view>>

AddPackageNode(timestamp) ==
    /\ HasChildren => (Room /\ Within(addPackageNode(model, timestamp)))
    /\ model' = IF HasChildren THEN addPackageNode(model, timestamp) ELSE model
    /\ last' = Built("addPackageNode", <<"package", NumStr(timestamp)>>, timestamp,
                     ~HasChildren, <<>>)
    /\ UNCHANGED <<edgeCounter, maxAllocated, creatorVars, pageVars, monaco, menu, view>>

\* payloads: a viewBox, a rotated group and a port marker; neither viewBox nor
\* size attributes; no <svg> element
ImportPayloads ==
    {[present |-> TRUE, hasSvg |-> TRUE, viewBox |-> <<0, 0, 100, 100>>,
      width |-> <<>>, height |-> <<>>, rotation |-> 90,
      ports |-> <<[cls |-> <<"Inlet">>, hasId |-> TRUE, attrType |-> "in",
                   x |-> 0, y |-> 40, width |-> 20, height |-> 20]>>],
     [present |-> TRUE, hasSvg |-> TRUE, viewBox |-> <<>>,
      width |-> <<>>, height |-> <<>>, rotation |-> 0, ports |-> <<>>],
     [present |-> TRUE, hasSvg |-> FALSE, viewBox |-> <<>>,
      width |-> <<>>, height |-> <<>>, rotation |-> 0, ports |-> <<>>]}
DropPositions == {[x |-> 40, y |-> 70]}

\* without an <svg> element the call returns before it reads the model
ImportSvgNodes(svgContent, x, y, timestamp) ==
    LET parsed == parseSvgInfo(svgContent, 200, 200) # <<>>
        throws == parsed /\ ~HasChildren
    IN  /\ (parsed /\ HasChildren) =>
                (Room /\ Within(importSvgNodes(model, svgContent, x, y, <<>>, <<>>, timestamp)))
        /\ model' = IF throws THEN model
                    ELSE importSvgNodes(model, svgContent, x, y, <<>>, <<>>, timestamp)
        /\ last' = Built("importSvgNodes", <<"svg", "imported", NumStr(timestamp)>>,
                         timestamp, throws,
                         [svgContent |-> svgContent, x |-> x, y |-> y])
        /\ UNCHANGED <<edgeCounter, maxAllocated, creatorVars, pageVars, monaco, menu, view>>

\* Math.floor(Math.random() * 600) + 50 and Math.floor(Math.random() * 400) + 50
RandomPositions == {[x |-> 50, y |-> 100]}

AddNode(timestamp, randomX, randomY) ==
    /\ HasChildren => Room
    /\ model' = IF HasChildren
                THEN updateModel(addNode(model, timestamp, randomX, randomY), dom)
                ELSE model
    /\ monaco' = IF HasChildren
                 THEN updateMonacoEditorContent(monaco, timers, model').monaco
                 ELSE monaco
    /\ timers' = IF HasChildren
                 THEN updateMonacoEditorContent(monaco, timers, model').timers
                 ELSE timers
    /\ last' = Built("addNode", <<"node", NumStr(timestamp)>>, timestamp, ~HasChildren, <<>>)
    /\ UNCHANGED <<edgeCounter, maxAllocated, creatorVars, dom, menu, view>>

DuplicateItem(id, timestamp) ==
    LET found == FindTopLevel(Field(model, "children", <<>>), id) # 0 IN
    /\ found => (Room /\ Within(duplicateItem(model, id, timestamp)))
    /\ model' = duplicateItem(model, id, timestamp)
    /\ last' = Built("duplicateItem", id, IF found THEN timestamp ELSE Clock, FALSE, <<>>)
    /\ UNCHANGED <<edgeCounter, maxAllocated, creatorVars, pageVars, monaco, menu, view>>

\* documents with a type and an id and without a children list
MalformedDocuments == {[type |-> "graph", id |-> <<"root">>]}

LoadMalformed(jsonModel) ==
    LET r == loadFromJson(edgeCounter, jsonModel) IN
    /\ model' = r.model
    /\ edgeCounter' = r.edgeCounter
    /\ last' = Built("loadMalformed", jsonModel.id, Clock, r.threw, <<>>)
    /\ UNCHANGED <<maxAllocated, creatorVars, pageVars, monaco, menu, view>>

\* the export button and then the import button on the exported file:
\* JSON.stringify(getModel()), JSON.parse, loadFromJson
ExportImport ==
    LET r == loadFromJson(edgeCounter, JsonCopy(model)) IN
    /\ model' = r.model
    /\ edgeCounter' = r.edgeCounter
    /\ last' = Built("exportImport", <<>>, Clock, r.threw, <<>>)
    /\ UNCHANGED <<maxAllocated, creatorVars, pageVars, monaco, menu, view>>

----------------------------------------------------------------------------
(* Deferred follow-ups: the callbacks scheduled with setTimeout after a resize
   action and after a pointer release, and the page they read *)

MaxTimers == 2

\* where a drag ends, and the size a resize handle is dragged to
DragPositions == {[x |-> 40, y |-> 70]}
ResizeBounds == {[width |-> 200, height |-> 100]}

\* the page shows the model that was last handed to the model source
Render ==
    /\ HasChildren
    /\ dom' = Rendered(model.children)
    /\ last' = [op |-> "render", now |-> Clock]
    /\ UNCHANGED <<model, edgeCounter, maxAllocated, creatorVars, timers, monaco, menu, view>>

\* a timer: its kind, the element it was scheduled for (the size sync reads it
\* from the action, the position sync does not read it) and the new size
Timer(kind, target, width, height) ==
    [kind |-> kind, target |-> target, width |-> width, height |-> height]

\* CustomMouseListener.mouseUp on the node of the i-th element, which a drag
\* has left at p: updateCallback is scheduled 100 ms later
MouseUp(i, p) ==
    LET target == NodeIdOfElement(dom[i].id[1])[1] IN
    /\ Len(timers) < MaxTimers
    /\ dom' = [dom EXCEPT ![i].transform = <<p>>]
    /\ timers' = Append(timers, Timer("position", target, 0, 0))
    /\ last' = [op |-> "mouseUp", id |-> target, now |-> Clock]
    /\ UNCHANGED <<model, edgeCounter, maxAllocated, creatorVars, monaco, menu, view>>

\* a move of the resize handle of the node of the i-th element: the resize
\* action is dispatched and syncNodeSizeFromAction(action) is scheduled
DispatchResize(i, newBounds) ==
    LET nodeId == NodeIdOfElement(dom[i].id[1])[1] IN
    /\ Len(timers) < MaxTimers
    /\ timers' = Append(timers, Timer("size", nodeId, newBounds.width, newBounds.height))
    /\ last' = [op |-> "resize", id |-> nodeId, now |-> Clock]
    /\ UNCHANGED <<model, edgeCounter, maxAllocated, creatorVars, dom, monaco, menu, view>>

\* the k-th scheduled callback runs; callbacks of one kind have one delay and
\* run in the order they were scheduled in.  gone: its node is not in the
\* model; again: the step before was the same callback for the same node
FireTimer(k) ==
    LET timer == timers[k]
        r == IF timer.kind = "size"
             THEN syncNodeSizeFromAction(model,
                      [nodeId |-> timer.target,
                       newBounds |-> [width |-> timer.width, height |-> timer.height]])
             ELSE [model |-> updateModel(model, dom), threw |-> FALSE]
        rest == [j \in 1..(Len(timers) - 1) |-> IF j < k THEN timers[j] ELSE timers[j + 1]]
        e == IF r.threw THEN [monaco |-> monaco, timers |-> rest]
             ELSE updateMonacoEditorContent(monaco, rest, r.model)
    IN  /\ timer.kind \in {"size", "position"}
        /\ \A j \in 1..(k - 1) : timers[j].kind # timer.kind
        /\ model' = r.model
        /\ timers' = e.timers
        /\ monaco' = e.monaco
        /\ last' = [op |-> "fire", kind |-> timer.kind, id |-> timer.target,
                    threw |-> r.threw, now |-> Clock,
                    gone |-> findNode(model.children, timer.target) = <<>>,
                    again |-> /\ last.op = "fire"
                              /\ last.kind = timer.kind
                              /\ last.id = timer.target]
        /\ UNCHANGED <<edgeCounter, maxAllocated, creatorVars, dom, menu, view>>

\* monaco.editor.create with the text of the model
InitMonaco ==
    /\ ~monaco.present
    /\ monaco' = [NoEditor EXCEPT !.present = TRUE, !.value = Stringified(model)]
    /\ last' = [op |-> "initMonaco", now |-> Clock]
    /\ UNCHANGED <<model, edgeCounter, maxAllocated, creatorVars, pageVars, menu, view>>

\* texts typed into the editor: no JSON, a document without an id, a document
\* without children, and a graph with two nodes
EditorTexts ==
    {[kind |-> "text"],
     [kind |-> "json", doc |-> [type |-> "graph", children |-> <<>>]],
     [kind |-> "json", doc |-> [type |-> "graph", id |-> <<"root">>]],
     Stringified(LoadableTrees[2])}

\* the user changes the text of the editor
TypeInEditor(text) ==
    LET e == onMonacoContentChanged([monaco EXCEPT !.value = text], timers) IN
    /\ monaco.present
    /\ text # monaco.value
    /\ monaco' = e.monaco
    /\ timers' = e.timers
    /\ last' = [op |-> "type", now |-> Clock]
    /\ UNCHANGED <<model, edgeCounter, maxAllocated, creatorVars, dom, menu, view>>

\* the debounce timer runs updateDiagramFromMonaco
FireMonacoTimer(k) ==
    LET rest == [j \in 1..(Len(timers) - 1) |-> IF j < k THEN timers[j] ELSE timers[j + 1]]
        r == updateDiagramFromMonaco(monaco, rest, model, edgeCounter)
    IN  /\ timers[k].kind = "monaco"
        /\ Len(timers) <= MaxTimers
        /\ model' = r.model
        /\ edgeCounter' = r.edgeCounter
        /\ monaco' = r.monaco
        /\ timers' = r.timers
        /\ last' = [op |-> "loadBack", flagged |-> r.flagged, threw |-> r.threw,
                    now |-> Clock]
        /\ UNCHANGED <<maxAllocated, creatorVars, dom, menu, view>>

\* the timer set by updateDiagramFromMonaco resets the flag
FireFlagReset(k) ==
    /\ timers[k].kind = "flag"
    /\ monaco' = [monaco EXCEPT !.isUpdatingFromMonaco = FALSE]
    /\ timers' = [j \in 1..(Len(timers) - 1) |-> IF j < k THEN timers[j] ELSE timers[j + 1]]
    /\ last' = [op |-> "flagReset", now |-> Clock]
    /\ UNCHANGED <<model, edgeCounter, maxAllocated, creatorVars, dom, menu, view>>

----------------------------------------------------------------------------
(* The context menu: requests and clicks on its items *)

\* a context-menu request on the node or edge with this id
ContextMenu(item, targetId) ==
    /\ menu' = contextMenu(menu, item, targetId)
    /\ last' = [op |-> "contextMenu", item |-> item, id |-> targetId, now |-> Clock]
    /\ UNCHANGED <<model, edgeCounter, maxAllocated, creatorVars, pageVars, monaco, view>>

\* every listener of the item runs, in the order of attachment: deleteItem of
\* the id it holds and the update callback
RECURSIVE RunListeners(_, _, _)
RunListeners(handlers, m, e) ==
    IF handlers = <<>> THEN [model |-> m, monaco |-> e.monaco, timers |-> e.timers]
    ELSE LET deleted == updateModel(deleteItem(m, Head(handlers)), dom)
         IN  RunListeners(Tail(handlers), deleted,
                          updateMonacoEditorContent(e.monaco, e.timers, deleted))

\* a click on a menu item that has a listener
ClickMenuItem(item) ==
    LET r == RunListeners(menu.listeners[item], model, [monaco |-> monaco, timers |-> timers])
    IN  /\ menu.listeners[item] # <<>>
        /\ model' = r.model
        /\ monaco' = r.monaco
        /\ timers' = r.timers
        /\ last' = [op |-> "click", item |-> item, ran |-> menu.listeners[item],
                    now |-> Clock]
        /\ UNCHANGED <<edgeCounter, maxAllocated, creatorVars, dom, menu, view>>

----------------------------------------------------------------------------
(* The view and the resize command *)

\* modelSource.setModel / updateModel(graphModel.getModel()): the view shows
\* the model, and the commands executed before are dropped
SetModel ==
    /\ HasChildren
    /\ view' = [root |-> model.children, command |-> <<>>]
    /\ last' = [op |-> "setModel", now |-> Clock]
    /\ UNCHANGED <<model, edgeCounter, maxAllocated, creatorVars, pageVars, monaco, menu>>

\* the command of a resize action for a node of the view: newBounds carries
\* the node's x and y and the new width and height.  before is the node
\* before the command ran, inStep says that the view showed the model
ExecuteResize(nodeId, width, height) ==
    LET path == findNode(view.root, nodeId)
        node == NodeAt(view.root, path)
        newBounds == [x |-> node.position.x, y |-> node.position.y,
                      width |-> width, height |-> height]
        r == execute(view, nodeId, newBounds)
    IN  /\ path # <<>>
        /\ view' = r.view
        /\ last' = [op |-> "execute", id |-> nodeId, width |-> width, height |-> height,
                    threw |-> r.threw, before |-> node,
                    inStep |-> view.root = model.children, now |-> Clock]
        /\ UNCHANGED <<model, edgeCounter, maxAllocated, creatorVars, pageVars, monaco, menu>>

\* the command executed last is undone
UndoResize ==
    LET r == undo(view) IN
    /\ view.command # <<>>
    /\ view' = r.view
    /\ last' = [op |-> "undo", id |-> view.command[1].nodeId, threw |-> r.threw,
                now |-> Clock]
    /\ UNCHANGED <<model, edgeCounter, maxAllocated, creatorVars, pageVars, monaco, menu>>

----------------------------------------------------------------------------
(* Specifications *)

\* the graph model driven through its public operations and the context menu
ModelTrees == 1..6

NextModel ==
    \/ \E t \in ModelTrees : LoadFromJson(t)
    \/ \E c \in EdgeCalls : AddEdge(c[1], c[2])
    \/ \E id \in ElementIds(Field(model, "children", <<>>)) : DeleteItem(id)

SpecModel == Init /\ [][NextModel]_vars

\* the edge creator on top of a loaded model with two top-level nodes
CreatorTrees == {2}

NextCreator ==
    \/ \E t \in CreatorTrees : LoadFromJson(t)
    \/ \E target \in Targets(model), hasGroup \in BOOLEAN,
          centre \in ScreenCentres, ctm \in ScreenMatrices :
            HandleMouseDown(target, hasGroup, centre, ctm)
    \/ \E target \in Targets(model), hasSvg \in BOOLEAN : HandleMouseMove(target, hasSvg)
    \/ \E target \in Targets(model) : HandleMouseUp(target, "none")
    \/ \E key \in Keys : HandleKeyDown(key, "none")

SpecCreator == Init /\ [][NextCreator]_vars

\* the same with DOM calls that may throw in the release handler and in cleanup
Faults == {"release", "cleanupQuery", "cleanupRemove"}

NextFault ==
    \/ NextCreator
    \/ \E target \in Targets(model), fault \in Faults : HandleMouseUp(target, fault)
    \/ \E key \in Keys, fault \in Faults : HandleKeyDown(key, fault)

SpecFault == Init /\ [][NextFault]_vars

\* the geometry functions applied to their arguments
NextGeometry ==
    \/ \E a \in AxisArguments : DistributeAlongAxis(a[1], a[2], a[3])
    \/ \E a \in RotatePointArguments : RotatePoint(a[1], a[2], a[3])
    \/ \E rect \in PortRects, rotation \in Angles :
            CalculatePortPositionWithRotation(rect, rotation, [x |-> 60, y |-> 30])
    \/ \E config \in NodeConfigs : CreateNodeWithPorts(config)

SpecGeometry == Init /\ [][NextGeometry]_vars

\* position and size updates on loaded trees with nested packages
EditTrees == {7, 8, 10, 11}

NextEdit ==
    \/ \E t \in EditTrees : LoadFromJson(t)
    \/ \E nodeId \in EditIds, p \in EditPositions : UpdateNodePosition(nodeId, p.x, p.y)
    \/ \E nodeId \in EditIds, size \in EditSizes :
            UpdateNodeSize(nodeId, size.width, size.height)
    \/ \E i \in 1..Len(model.children) : CreateEdgePath(i)

SpecEdit == Init /\ [][NextEdit]_vars

\* rotations and flips of the nodes of loaded trees
TransformTrees == {5, 6, 9}

NextTransform ==
    \/ \E t \in TransformTrees : LoadFromJson(t)
    \/ \E id \in NodeIdsOf(model.children) : RotateLeftNode(id)
    \/ \E id \in NodeIdsOf(model.children) : RotateRightNode(id)
    \/ \E id \in NodeIdsOf(model.children) : FlipHorizontalNode(id)
    \/ \E id \in NodeIdsOf(model.children) : FlipVerticalNode(id)

SpecTransform == Init /\ [][NextTransform]_vars

\* nodes created, imported, duplicated and deleted, and the tree exported and
\* loaded again
BuildTrees == {3}

NextBuild ==
    \/ \E t \in BuildTrees : LoadFromJson(t)
    \/ \E config \in BuildConfigs : AddNodeWithPorts(config)
    \/ \E timestamp \in Times : AddPackageNode(timestamp)
    \/ \E svgContent \in ImportPayloads, p \in DropPositions, timestamp \in Times :
            ImportSvgNodes(svgContent, p.x, p.y, timestamp)
    \/ \E timestamp \in Times, p \in RandomPositions : AddNode(timestamp, p.x, p.y)
    \/ \E id \in MenuNodeIds, timestamp \in Times : DuplicateItem(id, timestamp)
    \/ \E id \in ElementIds(Field(model, "children", <<>>)) : DeleteItem(id)
    \/ \E jsonModel \in MalformedDocuments : LoadMalformed(jsonModel)
    \/ ExportImport

SpecBuild == Init /\ [][NextBuild]_vars

\* a tree built, exported and loaded again
NextExport ==
    \/ \E t \in BuildTrees : LoadFromJson(t)
    \/ \E config \in BuildConfigs : AddNodeWithPorts(config)
    \/ \E timestamp \in Times : AddPackageNode(timestamp)
    \/ \E svgContent \in ImportPayloads, p \in DropPositions, timestamp \in Times :
            ImportSvgNodes(svgContent, p.x, p.y, timestamp)
    \/ \E id \in ElementIds(Field(model, "children", <<>>)) : DeleteItem(id)
    \/ ExportImport

SpecExport == Init /\ [][NextExport]_vars

\* top-level nodes moved, resized and deleted on the page while follow-ups are
\* pending
DeferTrees == {3}

NextDefer ==
    \/ \E t \in DeferTrees : LoadFromJson(t)
    \/ Render
    \/ \E i \in 1..Len(dom), p \in DragPositions : MouseUp(i, p)
    \/ \E i \in 1..Len(dom), newBounds \in ResizeBounds : DispatchResize(i, newBounds)
    \/ \E id \in ElementIds(model.children) : DeleteItem(id)
    \/ \E k \in 1..Len(timers) : FireTimer(k)

SpecDefer == Init /\ [][NextDefer]_vars

\* a process node resized, rotated and flipped in any order
ResizeTrees == {9}

NextResize ==
    \/ \E t \in ResizeTrees : LoadFromJson(t)
    \/ \E nodeId \in NodeIdsOf(model.children), size \in EditSizes :
            UpdateNodeSize(nodeId, size.width, size.height)
    \/ \E id \in NodeIdsOf(model.children) : RotateLeftNode(id)
    \/ \E id \in NodeIdsOf(model.children) : RotateRightNode(id)
    \/ \E id \in NodeIdsOf(model.children) : FlipHorizontalNode(id)
    \/ \E id \in NodeIdsOf(model.children) : FlipVerticalNode(id)

SpecResize == Init /\ [][NextResize]_vars

\* the model changed from the diagram and from the editor
EditorTrees == {1, 3}

NextEditor ==
    \/ \E t \in EditorTrees : LoadFromJson(t)
    \/ InitMonaco
    \/ \E text \in EditorTexts : TypeInEditor(text)
    \/ \E id \in ElementIds(Field(model, "children", <<>>)) : DeleteItem(id)
    \/ \E timestamp \in Times, p \in RandomPositions : AddNode(timestamp, p.x, p.y)
    \/ \E k \in 1..Len(timers) : FireMonacoTimer(k)
    \/ \E k \in 1..Len(timers) : FireFlagReset(k)

SpecEditor == Init /\ [][NextEditor]_vars

\* every scheduled callback runs
FairEditor ==
    /\ WF_vars(\E k \in 1..Len(timers) : FireMonacoTimer(k))
    /\ WF_vars(\E k \in 1..Len(timers) : FireFlagReset(k))

SpecEditorLive == SpecEditor /\ FairEditor

\* context-menu requests on the nodes and edges of a loaded graph, and clicks
MenuTrees == {3, 5}

NextMenu ==
    \/ \E t \in MenuTrees : LoadFromJson(t)
    \/ \E id \in NodeIdsOf(model.children) : ContextMenu("deleteNode", id)
    \/ \E id \in ElementIds(model.children) \ NodeIdsOf(model.children) :
            ContextMenu("deleteEdge", id)
    \/ \E item \in MenuItems : ClickMenuItem(item)

SpecMenu == Init /\ [][NextMenu]_vars

\* resizes of the nodes of the view and of the model, and the undo of a resize
CommandTrees == {2, 8}

NextCommand ==
    \/ \E t \in CommandTrees : LoadFromJson(t)
    \/ SetModel
    \/ \E id \in NodeIdsOf(view.root), s \in EditSizes : ExecuteResize(id, s.width, s.height)
    \/ UndoResize
    \/ \E id \in NodeIdsOf(model.children), s \in EditSizes :
          UpdateNodeSize(id, s.width, s.height)

SpecCommand == Init /\ [][NextCommand]_vars

----------------------------------------------------------------------------
(* Vocabulary of the properties *)

EdgesOf(m) == SelectSeq(m.children, IsEdge)
NumEdges(m) == Len(EdgesOf(m))

\* the nodes, at any depth, that have a port with this id
RECURSIVE OwnersOf(_, _)
OwnersOf(children, portId) ==
    UNION {IF children[i].type = "port:flow" \/ IsEdge(children[i]) THEN {}
           ELSE (IF \E k \in 1..Len(children[i].children) :
                        /\ children[i].children[k].type = "port:flow"
                        /\ children[i].children[k].id = portId
                 THEN {children[i].id} ELSE {})
                \cup OwnersOf(children[i].children, portId) : i \in 1..Len(children)}

OnDifferentNodes(m, s, t) ==
    /\ OwnersOf(m.children, s) # {}
    /\ OwnersOf(m.children, t) # {}
    /\ OwnersOf(m.children, s) \cap OwnersOf(m.children, t) = {}

\* the numbers n of the edge ids that read edge-<n>
EdgeNumbers(m) ==
    {ParseInt(e.id[2]) : e \in {x \in Range(EdgesOf(m)) :
                                    Len(x.id) = 2 /\ x.id[1] = "edge" /\ x.id[2] \in DigitParts}}
Largest(S) == IF S = {} THEN 0 ELSE CHOOSE x \in S : \A y \in S : x >= y

LastChild(m) == m.children[Len(m.children)]

AddEdgeStep == last'.op = "addEdge"
PointerOrKeyStep == last'.op \in {"mouseDown", "mouseMove", "mouseUp", "keyDown"}

SelfLoopMessage == "Cannot connect a node to itself"
DuplicateMessage == "Edge already exists"

----------------------------------------------------------------------------
(* C1: addEdge fails and adds no edge whenever the two port ids resolve to
   the same owning node, whatever the directions of the two ports. *)
C1_SameNodeRejected ==
    [][(AddEdgeStep /\ extractNodeId(model.children, last'.src)
                        = extractNodeId(model.children, last'.tgt))
        => (~last'.success /\ model' = model /\ edgeCounter' = edgeCounter)]_vars

\* an input-to-output call on the two ports of the top-level node n1 was rejected
C1_Witness ==
    /\ last.op = "addEdge" /\ last.src = N1in /\ last.tgt = N1out
    /\ OwnersOf(model.children, N1in) = {<<"n1">>}
    /\ OwnersOf(model.children, N1out) = {<<"n1">>}
    /\ ~last.success /\ last.message = SelfLoopMessage

(* C2: addEdge called twice with the same pair of ports of two different
   nodes succeeds the first time and fails the second time with the
   duplicate-edge message; the number of edges grows by exactly 1. *)
C2_TwiceAddsOnce ==
    [][AddEdgeStep =>
        /\ (OnDifferentNodes(model, last'.src, last'.tgt)
            /\ ~EdgeExists(model.children, last'.src, last'.tgt))
           => (last'.success /\ NumEdges(model') = NumEdges(model) + 1)
        /\ (last.op = "addEdge" /\ last.success
            /\ last'.src = last.src /\ last'.tgt = last.tgt)
           => (~last'.success /\ last'.message = DuplicateMessage
               /\ NumEdges(model') = NumEdges(model))]_vars

(* C3: a rejected addEdge (self-loop or duplicate) returns success = false
   with a message and leaves the model unchanged: same children, edge id
   counter not consumed, so that the next successful addEdge gets the id
   that follows the counter. *)
C3_RejectionKeepsModel ==
    [][AddEdgeStep =>
        /\ ~last'.success
           => (/\ last'.message \in {SelfLoopMessage, DuplicateMessage}
               /\ model' = model
               /\ edgeCounter' = edgeCounter)
        /\ last'.success
           => (/\ LastChild(model').id = <<"edge", NumStr(edgeCounter + 1)>>
               /\ SubSeq(model'.children, 1, Len(model.children)) = model.children)]_vars

\* a duplicate was rejected after an edge had been allocated
C3_Witness ==
    /\ last.op = "addEdge" /\ ~last.success /\ last.message = DuplicateMessage
    /\ edgeCounter >= 1 /\ NumEdges(model) >= 1

(* C4 as stated: the number of each newly allocated edge id is strictly
   greater than that of every edge id allocated earlier, loads included. *)
C4_AlwaysAboveEarlier ==
    [][(AddEdgeStep /\ last'.success) => edgeCounter' > maxAllocated]_vars

(* C4 as amended: only loadFromJson lowers the counter; every allocation
   takes the counter's successor, which is above the number of every
   edge-<n> id present in the model. *)
C4_IncreasesBetweenLoads ==
    [][/\ last'.op # "loadFromJson" => edgeCounter' >= edgeCounter
       /\ (AddEdgeStep /\ last'.success)
          => (/\ edgeCounter' = edgeCounter + 1
              /\ \A n \in EdgeNumbers(model) : n < edgeCounter')]_vars

\* an id was allocated that is not above an id allocated before a load
C4_Witness ==
    /\ last.op = "addEdge" /\ last.success
    /\ edgeCounter < maxAllocated

(* C5: after loadFromJson(tree) the edge id counter is the largest number of
   the tree's edge ids (0 without edges), and the next successful addEdge
   creates edge-(that number + 1). *)
C5_CounterFromLoadedTree ==
    /\ [](last.op = "loadFromJson" => edgeCounter = Largest(EdgeNumbers(model)))
    /\ [][(last.op = "loadFromJson" /\ AddEdgeStep /\ last'.success)
          => LastChild(model').id = <<"edge", NumStr(Largest(EdgeNumbers(model)) + 1)>>]_vars

\* edge-3 was created in a model that holds edge-2 and no higher id
C5_Witness ==
    /\ last.op = "addEdge" /\ last.success
    /\ LastChild(model).id = <<"edge", "3">>
    /\ \E i \in 1..Len(model.children) : model.children[i].id = <<"edge", "2">>
    /\ maxAllocated = 3

(* C6: in every state reached by addEdge, deleteItem and loadFromJson of
   trees with pairwise distinct edge ids, the edge ids of the model are
   pairwise distinct. *)
C6_EdgeIdsDistinct ==
    \A i, j \in 1..Len(model.children) :
        (IsEdge(model.children[i]) /\ IsEdge(model.children[j]) /\ i # j)
            => model.children[i].id # model.children[j].id

\* an allocated edge sits next to a loaded or earlier edge after a deletion
C6_Witness ==
    /\ NumEdges(model) >= 2
    /\ last.op = "addEdge" /\ last.success
    /\ maxAllocated > edgeCounter

----------------------------------------------------------------------------
(* The edge-creation machine: Idle is ~state.isCreating, Dragging is
   state.isCreating *)

EscapeStep == last'.op = "keyDown" /\ last'.src = <<"Escape">>
CapturedPositions ==
    {<<getPortPosition(c, m)>> : c \in ScreenCentres, m \in ScreenMatrices}

(* C7: the machine leaves Idle only on a press on a port classified as
   output, which captures the port's id and position; every other press and
   any move, release or key received while Idle leaves it Idle and the model
   unchanged. *)
C7_LeavesIdleOnOutputPress ==
    [][~state.isCreating =>
        IF last'.op = "mouseDown" /\ last'.over = "output"
        THEN /\ state'.isCreating
             /\ last'.src # <<>> /\ state'.sourcePortId = last'.src
             /\ state'.sourcePosition \in CapturedPositions
             /\ model' = model /\ edgeCounter' = edgeCounter
        ELSE /\ state' = state
             /\ PointerOrKeyStep => (model' = model /\ edgeCounter' = edgeCounter)]_vars

\* a press on n1-out at zoom 2 started a drag from (20, 20)
C7_Witness ==
    /\ last.op = "mouseDown" /\ ~last.was /\ last.over = "output"
    /\ state.isCreating /\ state.sourcePortId = N1out
    /\ state.sourcePosition = <<[x |-> 20, y |-> 20]>>

(* C8: a release while Dragging over a port classified as input calls addEdge
   exactly once with the captured source and the target port; if addEdge
   fails the machine still ends in Idle, no edge is added, and onModelUpdate
   is called only when addEdge succeeded. *)
C8_ReleaseOnInputCallsOnce ==
    [][(state.isCreating /\ last'.op = "mouseUp" /\ last'.over = "input") =>
        /\ last'.calls = 1
        /\ last'.src = state.sourcePortId
        /\ \E p \in PortsOf(model.children) : p.id = last'.tgt
        /\ ~state'.isCreating
        /\ last'.updated <=> last'.success
        /\ ~last'.success => (model' = model /\ edgeCounter' = edgeCounter)
        /\ last'.success =>
              (/\ NumEdges(model') = NumEdges(model) + 1
               /\ LastChild(model').sourceId = last'.src
               /\ LastChild(model').targetId = last'.tgt)]_vars

\* a drag ended on an input port with a duplicate: Idle, nothing reported
C8_Witness ==
    /\ last.op = "mouseUp" /\ last.was /\ last.over = "input"
    /\ last.calls = 1 /\ ~last.success /\ last.message = DuplicateMessage
    /\ ~last.updated /\ state = Idle

(* C9: while Dragging, a release over anything that is not an input port, or
   an Escape key, returns the machine to Idle without calling addEdge; the
   edges are unchanged. *)
C9_CancelAddsNothing ==
    [][(state.isCreating
        /\ ((last'.op = "mouseUp" /\ last'.over # "input") \/ EscapeStep)) =>
        /\ ~state'.isCreating
        /\ last'.calls = 0
        /\ model' = model /\ edgeCounter' = edgeCounter]_vars

\* a drag was released over an output port
C9_Witness ==
    /\ last.op = "mouseUp" /\ last.was /\ last.over = "output"
    /\ last.calls = 0 /\ state = Idle

(* C10: on every exit from Dragging the feedback path and the highlights are
   removed and the captured state is cleared, also when a DOM call throws in
   the release or in the cleanup. *)
C10_CleanupOnEveryExit ==
    [][(state.isCreating /\ (last'.op = "mouseUp" \/ EscapeStep)) =>
        /\ state' = Idle
        /\ feedbackLine' = <<>>
        /\ domPaths' = {}
        /\ validTargets' = {}]_vars

----------------------------------------------------------------------------
(* Port placement *)

IsCall(op) == last.op = op
Follows(op) == IsCall(op) /\ last.prev # <<>>

\* the number of children before the k-th that are on the same side
OrdinalOnSide(children, k) ==
    Cardinality({j \in 1..(k - 1) : children[j].side = children[k].side})
CountOnSide(children, side) ==
    Cardinality({j \in 1..Len(children) : children[j].side = side})

\* the side rule of the claim for a port at a given index of its side
SideRule(side, index, total, size) ==
    CASE side = "left" -> [x |-> -8, y |-> distributeAlongAxis(index, total, size.height)]
      [] side = "right" -> [x |-> size.width - 8,
                            y |-> distributeAlongAxis(index, total, size.height)]
      [] side = "top" -> [x |-> distributeAlongAxis(index, total, size.width), y |-> -8]
      [] side = "bottom" -> [x |-> distributeAlongAxis(index, total, size.width),
                             y |-> size.height - 8]

\* the port configuration that the k-th child was made from
ConfigOf(config, children, k) ==
    PortsOnSide(config.ports, children[k].side)[OrdinalOnSide(children, k) + 1]

(* C14 as stated: createNodeWithPorts places every port by the side rule at
   its ordinal within its side: left x = -8, right x = width - 8, top y = -8,
   bottom y = height - 8, the other coordinate distributed along the side. *)
C14_PortsAtOrdinal ==
    IsCall("createNodeWithPorts") =>
        \A k \in 1..Len(last.result.children) :
            last.result.children[k].position =
                SideRule(last.result.children[k].side,
                         OrdinalOnSide(last.result.children, k),
                         CountOnSide(last.result.children, last.result.children[k].side),
                         last.config.size)

(* C14 as amended: every port is placed by the side rule at the index its
   configuration gives, and at its ordinal within its side when the
   configuration gives no index. *)
C14_PortsAtIndexOrOrdinal ==
    IsCall("createNodeWithPorts") =>
        /\ Len(last.result.children) = Len(last.config.ports)
        /\ \A k \in 1..Len(last.result.children) :
            LET children == last.result.children
                port == ConfigOf(last.config, children, k)
            IN  children[k].position =
                    SideRule(children[k].side,
                             IF port.index # <<>> THEN port.index[1]
                             ELSE OrdinalOnSide(children, k),
                             CountOnSide(children, children[k].side),
                             last.config.size)

\* two left ports configured with the indexes 1 and 0 on a 120 x 60 node are
\* at y = 44 and y = 0, against their order in the list
C14_Witness ==
    /\ IsCall("createNodeWithPorts")
    /\ last.config.ports = PortLists[5]
    /\ last.config.size = [width |-> 120, height |-> 60]
    /\ last.result.children[1].position = [x |-> -8, y |-> 44]
    /\ last.result.children[2].position = [x |-> -8, y |-> 0]

(* C15 as stated: for every total >= 1, every index below it and every
   strictly positive side length, distributeAlongAxis does not decrease when
   the index grows, and for total = 1 it is (length - 16) / 2. *)
C15_MonotoneForPositiveLength ==
    IsCall("distributeAlongAxis") =>
        /\ last.total = 1 => 2 * last.result = last.length - 16
        /\ (Follows("distributeAlongAxis") /\ last.prev[1].total = last.total
            /\ last.prev[1].length = last.length /\ last.length > 0
            /\ last.prev[1].index <= last.index)
           => last.prev[1].result <= last.result

(* C15 as amended: the same for every side length of at least the port size
   16; on a shorter side the offsets are negative and decrease with the
   index. *)
C15_MonotoneFromPortSize ==
    IsCall("distributeAlongAxis") =>
        /\ last.total = 1 => 2 * last.result = last.length - 16
        /\ (Follows("distributeAlongAxis") /\ last.prev[1].total = last.total
            /\ last.prev[1].length = last.length
            /\ last.prev[1].index <= last.index)
           => IF last.length >= 16 THEN last.prev[1].result <= last.result
              ELSE last.prev[1].result >= last.result

\* index 2 of 3 on a side of 4 is placed before index 1
C15_Witness ==
    /\ Follows("distributeAlongAxis")
    /\ last.length = 4 /\ last.total = 3 /\ last.prev[1].total = 3 /\ last.prev[1].length = 4
    /\ last.prev[1].index = 1 /\ last.index = 2
    /\ last.prev[1].result = -6 /\ last.result = -12

(* C16: when the port list gives no port id, createNodeWithPorts names each
   port <nodeId>-<side>-<direction>-<ordinal within its side>, and the ids of
   the ports of the node are pairwise distinct. *)
C16_DefaultPortIds ==
    (IsCall("createNodeWithPorts")
     /\ \A i \in 1..Len(last.config.ports) : last.config.ports[i].id = <<>>) =>
        LET children == last.result.children IN
        /\ \A k \in 1..Len(children) :
              children[k].id = last.config.id
                                \o <<children[k].side, children[k].portType,
                                     NumStr(OrdinalOnSide(children, k))>>
        /\ \A j, k \in 1..Len(children) : j # k => children[j].id # children[k].id

\* six ports over the four sides of node-7, two of them on top
C16_Witness ==
    /\ IsCall("createNodeWithPorts")
    /\ last.config.ports = PortLists[3] /\ last.config.id = <<"node", "7">>
    /\ Len(last.result.children) = 6
    /\ last.result.children[2].id = <<"node", "7", "left", "output", "1">>
    /\ last.result.children[5].id = <<"node", "7", "top", "output", "1">>

----------------------------------------------------------------------------
(* Position and size updates *)

\* the tree as the set of its elements: each with its path from the root and
\* its own fields (all but children)
Shallow(element) == [f \in DOMAIN element \ {"children"} |-> element[f]]

RECURSIVE ElementsOf(_, _)
ElementsOf(children, prefix) ==
    UNION {{<<prefix \o <<i>>, Shallow(children[i])>>}
           \cup (IF "children" \in DOMAIN children[i]
                 THEN ElementsOf(children[i].children, prefix \o <<i>>)
                 ELSE {}) : i \in 1..Len(children)}

Elements(m) == ElementsOf(m.children, <<>>)

\* the nodes with this id, at any depth
NodesWithId(m, id) ==
    {e \in Elements(m) :
        e[2].type \in {"node:process", "node:svg", "node:package"} /\ e[2].id = id}

PositionStep == last'.op = "updateNodePosition"
SizeStep == last'.op = "updateNodeSize"

(* C11: updateNodePosition(id, x, y) sets the position of the node with that
   id to (x, y) wherever it is in the tree, also inside containers within
   containers, and changes nothing else: every other element keeps all its
   fields, and the node keeps its size, ports and other fields. *)
C11_PositionOfThatNodeOnly ==
    [][(PositionStep /\ Cardinality(NodesWithId(model, last'.id)) = 1) =>
        Elements(model') =
            (Elements(model) \ NodesWithId(model, last'.id))
            \cup {<<e[1], [e[2] EXCEPT !.position = [x |-> last'.x, y |-> last'.y]]>> :
                    e \in NodesWithId(model, last'.id)}]_vars

\* child-node1, inside the package inner inside the package outer, was moved
C11_Witness ==
    /\ last.op = "updateNodePosition" /\ last.id = <<"child", "node1">>
    /\ \E e \in NodesWithId(model, <<"child", "node1">>) :
          Len(e[1]) = 3 /\ e[2].position = [x |-> 40, y |-> 70]

(* C12: updateNodePosition and updateNodeSize called with an id that no node
   of the tree has leave the whole model unchanged and raise no error. *)
C12_MissChangesNothing ==
    [][((PositionStep \/ SizeStep) /\ NodesWithId(model, last'.id) = {}) =>
        (model' = model /\ edgeCounter' = edgeCounter /\ ~last'.threw)]_vars

\* a size update for an id that the loaded tree (with nodes) does not have
C12_Witness ==
    /\ last.op = "updateNodeSize" /\ last.id = <<"ghost">> /\ ~last.threw
    /\ NodesWithId(model, <<"ghost">>) = {}
    /\ NodesWithId(model, <<"p3">>) # {}

\* the node that a size step is about, before and after the step
SizedBefore == NodeAt(model.children, findNode(model.children, last'.id))
SizedAfter == NodeAt(model'.children, findNode(model.children, last'.id))
IsPort(child) == child.type = "port:flow"
RecognizedSide(child) == IsPort(child) /\ child.side \in Range(Sides)

(* C13: updateNodeSize(id, w, h) on a found node sets its size to (w, h),
   sets every port that has a recognized side to the side-rule position for
   (side, ordinal among the ports of that side, number of ports on that side,
   (w, h)), and leaves the ports with no recognized side where they are. *)
C13_ResizePlacesPortsBySide ==
    [][(SizeStep /\ Cardinality(NodesWithId(model, last'.id)) = 1) =>
        /\ SizedAfter.size = [width |-> last'.width, height |-> last'.height]
        /\ Len(SizedAfter.children) = Len(SizedBefore.children)
        /\ \A k \in 1..Len(SizedBefore.children) :
              IF RecognizedSide(SizedBefore.children[k])
              THEN SizedAfter.children[k].position =
                      SideRule(SizedBefore.children[k].side,
                               Cardinality({j \in 1..(k - 1) :
                                    IsPort(SizedBefore.children[j])
                                    /\ SizedBefore.children[j].side
                                        = SizedBefore.children[k].side}),
                               Cardinality({j \in 1..Len(SizedBefore.children) :
                                    IsPort(SizedBefore.children[j])
                                    /\ SizedBefore.children[j].side
                                        = SizedBefore.children[k].side}),
                               SizedAfter.size)
              ELSE SizedAfter.children[k] = SizedBefore.children[k]]_vars

----------------------------------------------------------------------------
(* Rotation: the pure functions *)

NeutralBand == {0, 360, -360}

\* the centre of the port rectangle is the centre of rotation
CentredOn(rect, c) ==
    rect.x + rect.width \div 2 = c.x /\ rect.y + rect.height \div 2 = c.y

----------------------------------------------------------------------------
(* Rotation and flip of a node *)

\* the top-level node with this id, and the node as the tree was loaded
TopLevel(id) == model.children[FindTopLevel(model.children, id)]
AsLoaded(id) ==
    CHOOSE n \in UNION {Range(LoadableTrees[t].children) : t \in TransformTrees} : n.id = id

(* C17 as stated: starting from stored rotation 0, after four consecutive
   rotate-right operations on a node the stored rotation reads 90. *)
C17_FourTurnsRead90 ==
    (last.op = "rotateRight" /\ ~last.threw /\ last.start = 0 /\ last.streak = 4)
        => TopLevel(last.id).rotation = 90

(* C17 as amended: starting from stored rotation 0, the stored rotation reads
   360 after four consecutive rotate-right operations and 90 after the
   fifth. *)
C17_FourTurnsRead360 ==
    (last.op = "rotateRight" /\ ~last.threw /\ last.start = 0) =>
        /\ last.streak = 4 => TopLevel(last.id).rotation = 360
        /\ last.streak = 5 => TopLevel(last.id).rotation = 90

\* the fifth rotate-right in a row on n1, loaded with rotation 0
C17_Witness ==
    /\ last.op = "rotateRight" /\ last.id = <<"n1">> /\ last.start = 0 /\ last.streak = 5
    /\ TopLevel(<<"n1">>).rotation = 90

\* a top-level process node that was loaded with rotation 0
Untransformed(node) == node.type = "node:process" /\ AsLoaded(node.id).rotation = 0

\* the claim's position of a port: the baseline, flipped for each enabled
\* flag, then its centre rotated about the node's centre
ExpectedPosition(node, baseline, portSize) ==
    LET x == IF Field(node, "enableFlipHorizontal", FALSE)
             THEN node.size.width - baseline.x - portSize.width
                    + FlipOffset(node, "flipHorizontal")
             ELSE baseline.x
        y == IF Field(node, "enableFlipVertical", FALSE)
             THEN node.size.height - baseline.y - portSize.height
                    + FlipOffset(node, "flipVertical")
             ELSE baseline.y
        centre == rotatePoint(x + portSize.width \div 2, y + portSize.height \div 2,
                              node.size.width \div 2, node.size.height \div 2, node.rotation)
    IN  [x |-> centre.x - portSize.width \div 2, y |-> centre.y - portSize.height \div 2]

(* C18: after any sequence of rotate-left, rotate-right, flip-horizontal and
   flip-vertical operations on an initially untransformed process node, the
   stored position of each port is its baseline position (the one before the
   first transform), flipped for each enabled flip flag and then rotated
   about the node's centre by the stored rotation; with rotation 0, 360 or
   -360 and both flips disabled every port is at its baseline. *)
C18_PortsFromBaseline ==
    \A i \in 1..Len(model.children) :
        Untransformed(model.children[i]) =>
            \A k \in 1..Len(model.children[i].children) :
                LET node == model.children[i]
                    baseline == AsLoaded(node.id).children[k].position
                IN  /\ node.children[k].position =
                            ExpectedPosition(node, baseline, node.children[k].size)
                    /\ (/\ node.rotation \in NeutralBand
                        /\ ~Field(node, "enableFlipHorizontal", FALSE)
                        /\ ~Field(node, "enableFlipVertical", FALSE))
                       => node.children[k].position = baseline

\* f1 (flip offset 4) was flipped horizontally and turned to -270: its left
\* port, from (-8, 22), is on the bottom side at x = 52, y = 108 (120 x 60 node)
C18_Witness ==
    /\ last.op \in {"rotateLeft", "rotateRight", "flipHorizontal", "flipVertical"}
    /\ FindTopLevel(model.children, <<"f1">>) # 0
    /\ TopLevel(<<"f1">>).rotation = -270
    /\ Field(TopLevel(<<"f1">>), "enableFlipHorizontal", FALSE)
    /\ TopLevel(<<"f1">>).children[1].position # AsLoaded(<<"f1">>).children[1].position
    /\ "originalPosition" \in DOMAIN TopLevel(<<"f1">>).children[1]

\* n1 is back at rotation 0 without flips after transforms, its ports at baseline
C18_BackToBaseline ==
    /\ last.op = "rotateLeft" /\ last.id = <<"n1">>
    /\ FindTopLevel(model.children, <<"n1">>) # 0
    /\ TopLevel(<<"n1">>).rotation = 0
    /\ "originalPosition" \in DOMAIN TopLevel(<<"n1">>).children[1]
    /\ TopLevel(<<"n1">>).children[1].position = [x |-> -8, y |-> 22]

(* C19: calculatePortPositionWithRotation returns the position it is given
   for the rotations 0, 360 and -360, and for no other stored rotation (a
   multiple of 90 between -360 and 360): every other rotation moves every
   port whose centre is not the centre of rotation. *)
C19_NeutralBandOnly ==
    IsCall("calculatePortPositionWithRotation") =>
        /\ last.rotation \in NeutralBand
           => last.result = [x |-> last.rect.x, y |-> last.rect.y]
        /\ (last.rotation \notin NeutralBand /\ ~CentredOn(last.rect, last.centre))
           => last.result # [x |-> last.rect.x, y |-> last.rect.y]

\* rotation 360 left the left port of a 120 x 60 node where it was, after
\* rotation 180 had moved it to the right side
C19_Witness ==
    /\ Follows("calculatePortPositionWithRotation")
    /\ last.rotation = 360 /\ last.rect.x = -8 /\ last.result = [x |-> -8, y |-> 22]
    /\ last.prev[1].rotation = 180 /\ last.prev[1].rect = last.rect
    /\ last.prev[1].result = [x |-> 112, y |-> 22]

(* C20: rotatePoint applied to its own result with the negated angle about
   the same centre returns the original point (angles: multiples of 90). *)
C20_RotateBack ==
    (Follows("rotatePoint")
     /\ last.point = last.prev[1].result /\ last.centre = last.prev[1].centre
     /\ last.angle = -last.prev[1].angle)
        => last.result = last.prev[1].point

\* (0, 30) went to (60, -30) by 90 degrees about (60, 30) and came back by -90
C20_Witness ==
    /\ Follows("rotatePoint")
    /\ last.prev[1].point = [x |-> 0, y |-> 30] /\ last.prev[1].angle = 90
    /\ last.prev[1].centre = [x |-> 60, y |-> 30]
    /\ last.prev[1].result = [x |-> 60, y |-> -30]
    /\ last.point = last.prev[1].result /\ last.centre = last.prev[1].centre
    /\ last.angle = -90 /\ last.result = [x |-> 0, y |-> 30]

----------------------------------------------------------------------------
(* Edges between nodes of a container, and deletion *)

(* C30: addEdge succeeds whenever the two ports are owned by two different
   nodes and no edge with the same (source, target) pair exists, also when
   the owning nodes are children of a container node (child-node1-out to
   child-node2-in of the package that addPackageNode creates). *)
C30_DifferentNodesSucceeds ==
    [][(AddEdgeStep /\ OnDifferentNodes(model, last'.src, last'.tgt)
        /\ ~EdgeExists(model.children, last'.src, last'.tgt))
       => (last'.success /\ NumEdges(model') = NumEdges(model) + 1
           /\ LastChild(model').sourceId = last'.src
           /\ LastChild(model').targetId = last'.tgt)]_vars

DeleteStep == last'.op = "deleteItem"
\* the top-level nodes (process, vector-art or container) with this id
TopLevelNodes(m, id) == {i \in 1..Len(m.children) : IsNode(m.children[i]) /\ m.children[i].id = id}
WithoutNode(children, id) == SelectSeq(children, LAMBDA child : ~(IsNode(child) /\ child.id = id))

(* C27: deleting a node removes exactly the top-level node with that id
   (with its ports) and nothing else: every edge, also one whose source or
   target is a port of the deleted node, stays in the model. *)
C27_DeleteRemovesThatNodeOnly ==
    [][(DeleteStep /\ TopLevelNodes(model, last'.src) # {})
       => (/\ model'.children = WithoutNode(model.children, last'.src)
           /\ EdgesOf(model') = EdgesOf(model)
           /\ edgeCounter' = edgeCounter)]_vars

----------------------------------------------------------------------------
(* Scene position of an edge endpoint *)

RECURSIVE SumTo(_, _)
SumTo(f, n) == IF n = 0 THEN 0 ELSE f[n] + SumTo(f, n - 1)

\* the ancestors of the element at this path, the graph excluded: the owning
\* node and every container around it
Ancestors(children, path) ==
    [k \in 1..(Len(path) - 1) |-> NodeAt(children, SubSeq(path, 1, k))]

\* centre of the port at this path plus the positions of all its ancestors
ScenePosition(children, path) ==
    LET port == NodeAt(children, path)
        up == Ancestors(children, path)
    IN  [x |-> port.position.x + port.size.width \div 2
                + SumTo([k \in 1..Len(up) |-> up[k].position.x], Len(up)),
         y |-> port.position.y + port.size.height \div 2
                + SumTo([k \in 1..Len(up) |-> up[k].position.y], Len(up))]

(* C29: the scene position of an edge endpoint is the centre of the port
   plus the sum of the positions of all its ancestors (the owning node, then
   every enclosing container), the graph root excluded, at any nesting
   depth. *)
C29_EndpointAddsAllAncestors ==
    (last.op = "createEdgePath" /\ last.drawn) =>
        /\ last.sourcePoint =
              <<ScenePosition(model.children, findElement(model.children, last.src))>>
        /\ last.targetPoint =
              <<ScenePosition(model.children, findElement(model.children, last.tgt))>>

\* edge-1 from n1 (moved to (40, 70)) to child-node1 in the package inner
\* (moved to (40, 70)) in the package outer at (300, 100)
C29_Witness ==
    /\ last.op = "createEdgePath" /\ last.drawn /\ last.tgt = C1in
    /\ Len(findElement(model.children, C1in)) = 4
    /\ last.sourcePoint = <<[x |-> 40 + 112 + 8, y |-> 70 + 22 + 8]>>
    /\ last.targetPoint = <<[x |-> 300 + 40 + 50 - 8 + 8, y |-> 100 + 70 + 50 + 22 + 8]>>

----------------------------------------------------------------------------
(* Loading a tree *)

LoadStep == last'.op = "loadFromJson"
\* the document that the load of this step was given
Loaded == LoadableTrees[ParseInt(last'.src[1])]

\* a node's ports repaired for its rotation: recomputed from the payload when
\* the node has one, else its stored port positions rotated about its centre
Repaired(node) ==
    LET centerX == node.size.width \div 2
        centerY == node.size.height \div 2
    IN  IF Field(node, "svgContent", NoSvg).present
        THEN updatePortPositionsFromSvg(node, node.rotation, centerX, centerY).children
        ELSE rotateExistingPortPositions(node, node.rotation, centerX, centerY).children

\* the process and vector-art nodes of a tree, at any depth, by path
FlatNodePaths(m) == {e[1] : e \in {f \in Elements(m) : IsFlatNode(f[2])}}

(* C22: loadFromJson repairs the port positions of every node of the loaded
   tree that carries a non-neutral rotation, also of nodes that are children
   of container nodes, and leaves the ports of nodes with rotation 0, 360 or
   -360 untouched. *)
C22_LoadRepairsEveryRotatedNode ==
    [][LoadStep =>
        \A path \in FlatNodePaths(Loaded) :
            LET given == NodeAt(Loaded.children, path)
                held == NodeAt(model'.children, path)
            IN  held.children = IF Field(given, "rotation", 0) \in NeutralBand
                                THEN given.children
                                ELSE Repaired(given)]_vars

----------------------------------------------------------------------------
(* Export and load, creation and import *)

RoundTripStep == last'.op = "exportImport"

\* the nodes of the tree, at any depth
NodesOf(m) == {e \in Elements(m) : IsNode(e[2])}
NoRotatedNodes(m) == \A e \in NodesOf(m) : Field(e[2], "rotation", 0) = 0

\* the semantic fields of an element: type and id, position and size, the
\* direction and side of a port, the two ends of an edge
SemanticFields == {"type", "id", "position", "size", "portType", "side", "sourceId", "targetId"}
Semantic(element) == [f \in DOMAIN element \cap SemanticFields |-> element[f]]
\* the tree by paths: each element with its semantic fields at its place in
\* the child list of its parent
SemanticTree(m) == {<<e[1], Semantic(e[2])>> : e \in Elements(m)}

(* C21: for a tree with no rotated nodes, exporting the model (the JSON text
   of getModel) and loading the result with loadFromJson yields a tree equal
   to the original in ids, positions, sizes, port lists and edges. *)
C21_RoundTripKeepsTree ==
    [][(RoundTripStep /\ HasChildren /\ NoRotatedNodes(model))
       => (/\ ~last'.threw
           /\ "children" \in DOMAIN model'
           /\ SemanticTree(model') = SemanticTree(model))]_vars

\* a created node and a package with its two children came back; the created
\* ports, whose label is undefined in memory, came back without the property
C21_Witness ==
    /\ last.op = "exportImport" /\ ~last.threw
    /\ NoRotatedNodes(model)
    /\ \E e \in Elements(model) : e[2].id = <<"a1", "left", "input", "0">>
                                  /\ "label" \notin DOMAIN e[2]
    /\ \E e \in NodesOf(model) : Len(e[1]) = 2 /\ e[2].id = <<"child", "node2">>

\* a bulk-load document without a children list
MalformedLoadStep == last'.op = "loadMalformed"
\* a vector payload without an <svg> element
MalformedImportStep == last'.op = "importSvgNodes" /\ ~last'.args.svgContent.hasSvg

(* C23: a malformed input aborts the single operation and leaves the model
   unchanged: loadFromJson given a document without a children list and
   importSvgNodes given a payload with no svg element both leave the model
   held before, its children and its edge id counter exactly as they were. *)
C23_MalformedInputChangesNothing ==
    [][(MalformedLoadStep \/ MalformedImportStep)
       => (model' = model /\ edgeCounter' = edgeCounter)]_vars

(* C24: in every state reached through the creation operations
   (addNodeWithPorts with fresh ids, addPackageNode any number of times,
   importSvgNodes, addNode of the context menu, duplicateItem) node ids are
   unique within the whole graph, nodes nested in containers included. *)
C24_NodeIdsUnique ==
    HasChildren =>
        \A e1, e2 \in NodesOf(model) : e1[1] # e2[1] => e1[2].id # e2[2].id

(* C25: every node in every reachable state has strictly positive width and
   height, also a vector-art node imported from a payload that declares no
   viewBox (it takes the default size that the import supplies). *)
C25_SizesPositive ==
    HasChildren =>
        \A e \in NodesOf(model) : e[2].size.width > 0 /\ e[2].size.height > 0

ImportStep == last'.op = "importSvgNodes" /\ last'.args.svgContent.hasSvg /\ HasChildren

(* C26: importSvgNodes called with a drop position (x, y) adds a vector-art
   node whose stored position is (x, y), whether or not the model already
   holds other nodes. *)
C26_ImportedAtDropPosition ==
    [][ImportStep =>
        (/\ Len(model'.children) = Len(model.children) + 1
         /\ LastChild(model').type = "node:svg"
         /\ LastChild(model').position = [x |-> last'.args.x, y |-> last'.args.y])]_vars


\* every element of the page whose node is in the model shows the position the
\* model holds for it
InStep ==
    \A i \in 1..Len(dom) :
        LET path == findNode(model.children, NodeIdOfElement(dom[i].id[1])[1]) IN
        path # <<>> => dom[i].transform = <<NodeAt(model.children, path).position>>

\* a follow-up ran whose node was no longer in the model
LateFollowUp == last'.op = "fire" /\ last'.gone

(* C28: a deferred follow-up (the size sync scheduled after a resize action,
   the position sync scheduled after a pointer release) that runs after its
   node was deleted raises no error, does not put the node back and leaves
   the edge counter alone; the size sync leaves the model as it was, and so
   does the position sync wherever the page shows the positions of the
   model, in particular when it runs a second time in a row *)
C28_LateFollowUpIsHarmless ==
    [][LateFollowUp =>
        /\ ~last'.threw
        /\ findNode(model'.children, last'.id) = <<>>
        /\ edgeCounter' = edgeCounter
        /\ (last'.kind = "size" \/ InStep \/ last'.again) => model' = model]_vars

\* the position sync ran twice in a row for a deleted node whose element was
\* still on the page
C28_Witness ==
    /\ last.op = "fire" /\ last.gone /\ last.again /\ last.kind = "position"
    /\ \E i \in 1..Len(dom) : NodeIdOfElement(dom[i].id[1]) = <<last.id>>
    /\ model.children # <<>>

\* the ids of the ports of the nodes, at any depth
RECURSIVE PortIdsIn(_)
PortIdsIn(children) ==
    UNION {IF IsEdge(children[i]) THEN {}
           ELSE IF children[i].type = "port:flow" THEN {children[i].id}
           ELSE PortIdsIn(Field(children[i], "children", <<>>)) : i \in 1..Len(children)}

\* addEdge was called, directly or by a release, and reported success
EdgeMadeStep == last'.op \in {"addEdge", "mouseUp"} /\ last'.success

(* C31: addEdge creates an edge only when both port ids are ids of ports that
   the model holds at the time of the call *)
C31_EdgeOnlyBetweenExistingPorts ==
    [][EdgeMadeStep =>
        (last'.src \in PortIdsIn(model.children) /\ last'.tgt \in PortIdsIn(model.children))]_vars

\* a top-level process node each of whose ports lies on one of the four sides
SidedProcessNode(node) ==
    /\ node.type = "node:process"
    /\ \A k \in 1..Len(node.children) : node.children[k].side \in Range(Sides)

(* C32: whenever updateNodeSize, the rotations and the flips are interleaved
   on a process node, each port is stored at the position the side rule gives
   for the node's current size, flipped for each enabled flip flag and then
   rotated about the node's centre by the stored rotation *)
C32_PortsFollowSizeAndTurn ==
    \A i \in 1..Len(model.children) :
        SidedProcessNode(model.children[i]) =>
            \A k \in 1..Len(model.children[i].children) :
                LET node == model.children[i]
                    placed == ResizedChildren(node.children, node.size.width,
                                              node.size.height)[k].position
                IN  node.children[k].position =
                        ExpectedPosition(node, placed, node.children[k].size)

\* the position of every node and port, by path
PositionsOf(m) ==
    {<<e[1], e[2].position>> : e \in {el \in Elements(m) : "position" \in DOMAIN el[2]}}

(* C33: loading the JSON echo of the current model (the text of getModel,
   parsed, given to loadFromJson) leaves the position of every node and port
   as it was, also when nodes are rotated *)
C33_EchoKeepsPositions ==
    [][(RoundTripStep /\ HasChildren) => PositionsOf(model') = PositionsOf(model)]_vars

(* C34: whenever updateDiagramFromMonaco has set isUpdatingFromMonaco, the
   flag is false again at some later time, also when loadFromJson threw on
   the parsed document *)
C34_FlagEventuallyReset ==
    monaco.isUpdatingFromMonaco ~> ~monaco.isUpdatingFromMonaco

\* the scheduled runs of updateDiagramFromMonaco
LoadBacksPending(tm) == Cardinality({k \in 1..Len(tm) : tm[k].kind = "monaco"})

(* C35: the loop between model and editor ends: after any step at most one
   load-back of the editor text is scheduled, however many content changes
   went before, and a load-back neither changes the editor text nor leaves a
   further load-back scheduled *)
C35_UpdateLoopEnds ==
    [][/\ LoadBacksPending(timers') <= 1
       /\ last'.op = "loadBack" =>
            (monaco'.value = monaco.value /\ LoadBacksPending(timers') = 0)]_vars

\* the text written by addNode from the context menu was loaded back, and
\* nothing is scheduled but the reset of the flag
C35_Witness ==
    /\ last.op = "loadBack" /\ last.flagged /\ ~last.threw
    /\ \E i \in 1..Len(model.children) : model.children[i].id[1] = "node"
    /\ monaco.isUpdatingFromMonaco
    /\ LoadBacksPending(timers) = 0

(* C36: at any time at most one feedback path made by the edge creator is
   attached to the page, and none while no edge creation is in progress *)
C36_AtMostOneFeedbackPath ==
    /\ Cardinality(domPaths) <= 1
    /\ ~state.isCreating => domPaths = {}

\* the ids of the element with this id and of the nodes and edges inside it
SubtreeIds(m, id) ==
    {f[2].id : f \in {g \in Elements(m) :
        /\ g[2].type # "port:flow"
        /\ \E e \in Elements(m) :
              /\ e[2].id = id
              /\ Len(e[1]) <= Len(g[1])
              /\ SubSeq(g[1], 1, Len(e[1])) = e[1]}}

\* a click on one of the Delete items
DeleteClick == last'.op = "click"

(* C37: after any sequence of context-menu requests each menu item has at
   most one click listener, the one made by the latest request for the item;
   a click on Delete removes the element of that request, if the model still
   holds it, and nothing else *)
C37_OneHandlerForLatestTarget ==
    [][/\ \A item \in MenuItems : menu'.listeners[item] = menu'.requested[item]
       /\ DeleteClick =>
            LET id == menu.requested[last'.item][1] IN
            ElementIds(model'.children) = ElementIds(model.children) \ SubtreeIds(model, id)]_vars

\* the rotations the handlers can store
StoredRotations == {90 * k : k \in -4..4}

\* the node the last rotation turned, in a run of rotations from rotation 0
TurnedFromZero ==
    /\ last.op \in {"rotateLeft", "rotateRight"}
    /\ ~last.threw
    /\ last.fromZero

(* C38: the stored rotation of a node that had rotation 0, after any run of
   rotate-left and rotate-right calls on it, is a multiple of 90 between -360
   and 360, congruent modulo 360 to 90 times (right rotations minus left
   rotations) *)
C38_RotationCountsTurns ==
    TurnedFromZero =>
        LET rotation == Field(model.children[FindTopLevel(model.children, last.id)],
                              "rotation", 0)
        IN  /\ rotation \in StoredRotations
            /\ (rotation - 90 * last.net) % 360 = 0

\* five right rotations from 0: the fifth wrapped from 360 to 90
C38_Witness ==
    /\ TurnedFromZero
    /\ last.op = "rotateRight" /\ last.streak = 5 /\ last.start = 0
    /\ last.net = 1
    /\ Field(model.children[FindTopLevel(model.children, last.id)], "rotation", 0) = 90


\* the positions of the ports of a node, by port id
PortPositions(node) ==
    {<<node.children[k].id, node.children[k].position>> :
        k \in {j \in 1..Len(node.children) : node.children[j].type = "port:flow"}}

\* a resize command ran on a view that showed the model, and did not throw
ResizeInStep == last'.op = "execute" /\ last'.inStep /\ ~last'.threw

\* the undo of the command that the step before executed
UndoOfExecute == last.op = "execute" /\ ~last.threw /\ last'.op = "undo" /\ ~last'.threw

(* C39: a resize command gives every port of the node, the ports without a
   side included, the position that GraphModel.updateNodeSize gives it for the
   same node, width and height; and undo after execute gives the node and its
   ports the bounds and positions they had before execute *)
C39_CommandAndModelInStep ==
    [][/\ ResizeInStep =>
            LET id == last'.id
                inView == NodeAt(view'.root, findNode(view'.root, id))
                m == updateNodeSize(model, id, last'.width, last'.height).model
                inModel == NodeAt(m.children, findNode(m.children, id))
            IN  PortPositions(inView) = PortPositions(inModel)
       /\ UndoOfExecute =>
            LET node == NodeAt(view'.root, findNode(view'.root, last'.id))
            IN  /\ BoundsOf(node) = BoundsOf(last.before)
                /\ PortPositions(node) = PortPositions(last.before)]_vars
====
